---- MODULE Spec2Model ----
(***************************************************************************)
(* Collaborative-filtering core of the music recommender:                  *)
(*   collaborative/dataset.py  load, normalize                             *)
(*   collaborative/api.py      module initialisation, get_recommendations  *)
(*   collaborative/train.py    train                                       *)
(* float64 values are modelled by exact integers plus the value NaN.       *)
(***************************************************************************)
EXTENDS Integers, Sequences, FiniteSets, TLC

\* ------------------------------------------------------------------------
\* Bounds of the model
\* ------------------------------------------------------------------------
MaxLines == 3
MaxSize == 3

\* ------------------------------------------------------------------------
\* Input alphabets
\* ------------------------------------------------------------------------
UserIds == {"u1", "u2"}
SongIds == {"s1", "s2"}
FileCounts == {1, 2}

\* A well-formed line "user_id \t song_id \t listening_count" after split("\t");
\* fields is the number of strings split("\t") returns.
Lines == [user_id : UserIds, song_id : SongIds, listening_count : FileCounts, fields : {3}]

\* Lines that do not split into three fields: a blank line (one field) and a
\* line with a fourth field.
MalformedLines ==
    { [user_id |-> "", song_id |-> "", listening_count |-> 0, fields |-> 1],
      [user_id |-> "u1", song_id |-> "s1", listening_count |-> 1, fields |-> 4] }

SeqsUpTo(S, n) == UNION {[1..k -> S] : k \in 0..n}

Min(a, b) == IF a <= b THEN a ELSE b

SeqToSet(s) == {s[k] : k \in 1..Len(s)}

VARIABLES
    train_triplets,   \* the lines of ../train_triplets.txt
    train_triplets_exists,  \* whether ../train_triplets.txt exists
    max_size,         \* load's argument
    pc,               \* position of the running operation
    lineno,           \* number of lines the for loop of load has consumed
    dataset_raw,      \* load: list of (user index, song index, count)
    USER_MAPPING,     \* dict user_id -> index
    SONG_MAPPING,     \* dict song_id -> index
    average_listening_count,  \* api: mean count of the unnormalized dataset
    songs_metadata,   \* api: the song_id column of songs_metadata.pkl
    q,                \* song factors, one row per song index
    p,                \* user factors, one row per user index
    b_song,           \* song biases
    b_user,           \* user biases
    users_listenings, \* get_recommendations: the argument of the last call
    most_similar_user_index,  \* get_recommendations: the user kept (-1: none)
    reco,             \* get_recommendations: outcome of the last call
    lbd,              \* train: regularisation weight
    gamma,            \* train: learning rate
    n_epochs,         \* train: number of epochs asked for
    train_set,        \* train: (user, song, count) triplets, in the current order
    validation_set,   \* train: (user, song, count) triplets
    epoch,            \* train: the epoch of the for loop
    pos,              \* train: number of triplets of the epoch already applied
    loss_sum,         \* train: loss accumulated in the epoch
    accuracy_sum,     \* train: squared error accumulated in the epoch
    learning_stats,   \* train: the four per-epoch lists
    initial_model,    \* the values of (q, p, b_song, b_user) when train was called
    caller_model,     \* the contents of the four arrays the caller of train holds
    train_return,     \* the value train has returned
    dataset,          \* normalize: the "Listening count" column of the array
    normalize_calls,  \* normalize: number of calls made on the array
    files,            \* model.save / model.load: contents of the .npy files
    save_prefix,      \* model.save: the prefix of the last call
    load_return,      \* model.load: outcome of the last call
    calls,            \* get_recommendations: the frame of each thread's call
    COLLABORATIVE_AVAILABLE,       \* wrapper: whether collaborative.api was imported
    CONTENT_RECOMMENDER_AVAILABLE, \* server: whether content_recommender_utils was imported
    MIX_RECOMMENDER_AVAILABLE,     \* server: whether mix_recommender was imported
    content_recommender,           \* server: whether the content recommender is loaded
    listening_history,             \* database: (user_id, song_id) -> listening_time of the row
    songs_table,                   \* database: song_id -> row of the songs table
    collab_return,                 \* wrapper: result of the last direct call
    request,                       \* server: the last /recommend/next request
    response,                      \* server: the last /recommend/next response
    invoked,                       \* server: the recommenders the last /recommend/next called
    mix_args,                      \* get_mix_recommendation: what the two recommenders give
    mix_return,                    \* get_mix_recommendation: the pair returned
    score_args,                    \* compute_score: the arguments of the last call
    score_return,                  \* compute_score: outcome of the last call
    feedback_request,              \* server: the last /feedback/update request
    feedback_response,             \* server: the last /feedback/update response
    feedback_log,                  \* the (user_id, song_id, score) of the calls answered with success
    initial_history                \* database: listening_history before the first call

loadVars == <<train_triplets, train_triplets_exists, max_size, lineno, dataset_raw,
             USER_MAPPING, SONG_MAPPING>>
modelVars == <<q, p, b_song, b_user>>
apiVars == <<average_listening_count, songs_metadata, users_listenings,
             most_similar_user_index, reco>>
trainVars == <<lbd, gamma, n_epochs, train_set, validation_set, epoch, pos,
               loss_sum, accuracy_sum, learning_stats, initial_model, caller_model,
               train_return>>
datasetVars == <<dataset, normalize_calls>>
\* The variables of the operations other than load, get_recommendations, train.
persistVars == <<files, save_prefix, load_return>>
serverVars == <<COLLABORATIVE_AVAILABLE, CONTENT_RECOMMENDER_AVAILABLE,
                MIX_RECOMMENDER_AVAILABLE, content_recommender, listening_history, songs_table,
                collab_return, request, response>>
mixVars == <<mix_args, mix_return, score_args, score_return>>
feedbackVars == <<feedback_request, feedback_response, feedback_log, initial_history>>
backendVars == <<invoked, mixVars, feedbackVars>>
otherVars == <<datasetVars, persistVars, calls, serverVars, backendVars>>
vars == <<pc, loadVars, modelVars, apiVars, trainVars, otherVars>>

\* ------------------------------------------------------------------------
\* dataset.load
\* ------------------------------------------------------------------------
EmptyDict == [k \in {} |-> 0]

\* The outcome of a call that has not been made.
NotCalled == [kind |-> "none", songs |-> <<>>]

\* No model arrays allocated or loaded.
NoModel ==
    /\ q = <<>>
    /\ p = <<>>
    /\ b_song = <<>>
    /\ b_user = <<>>

\* train has not returned.
NotReturned == [kind |-> "none"]

\* train is not running.
NoTrain ==
    /\ lbd = 0
    /\ gamma = 0
    /\ n_epochs = 0
    /\ train_set = <<>>
    /\ validation_set = <<>>
    /\ epoch = 0
    /\ pos = 0
    /\ loss_sum = 0
    /\ accuracy_sum = 0
    /\ learning_stats = <<>>
    /\ initial_model = <<>>
    /\ caller_model = <<>>
    /\ train_return = NotReturned

\* No array is being normalized.
NoDataset ==
    /\ dataset = <<>>
    /\ normalize_calls = 0

\* The four file names of a prefix are prefix + suffix; no suffix is the end
\* of another one, so a name determines its prefix and suffix and is kept as
\* the pair <<prefix, suffix>>.
Suffixes == <<"_q.npy", "_p.npy", "_b_song.npy", "_b_user.npy">>

Prefixes == {"model-4000000-40", "model-tmp"}

FileNames == Prefixes \X SeqToSet(Suffixes)

\* A file that does not exist.
Missing == [kind |-> "missing"]

\* model.save and model.load have not been called; no model file exists.
NoFiles ==
    /\ files = [f \in FileNames |-> Missing]
    /\ save_prefix = ""
    /\ load_return = [kind |-> "none"]

\* The threads that call get_recommendations.
Threads == {"t1", "t2"}

\* The frame of a thread that is not inside get_recommendations.
IdleCall == [pc |-> "idle", users_listenings |-> <<>>, most_similar_user_index |-> -1,
             reco |-> NotCalled]

NoCalls == calls = [t \in Threads |-> IdleCall]

\* No row of the songs table, no track.
NoTrack == [song_id |-> "", title |-> "", artist |-> ""]

\* No /recommend/next response yet. song_title is the pair (title, artist) of
\* the string "title - artist"; algorithm is the sequence of the strings that
\* are concatenated into the label; http is the status code.
NoResponse == [song_title |-> [title |-> "", artist |-> ""], algorithm |-> <<>>,
               status |-> "", track |-> NoTrack, http |-> 0]

NoRequest == [user_id |-> "", algo_type |-> "", db_ok |-> FALSE]

\* The backend is not started.
NoServer ==
    /\ COLLABORATIVE_AVAILABLE = FALSE
    /\ CONTENT_RECOMMENDER_AVAILABLE = FALSE
    /\ MIX_RECOMMENDER_AVAILABLE = FALSE
    /\ content_recommender = FALSE
    /\ listening_history = <<>>
    /\ songs_table = <<>>
    /\ collab_return = <<>>
    /\ request = NoRequest
    /\ response = NoResponse

\* No call of get_mix_recommendation, compute_score or /feedback/update yet.
NoBackend ==
    /\ invoked = {}
    /\ mix_args = <<>>
    /\ mix_return = <<>>
    /\ score_args = <<>>
    /\ score_return = <<>>
    /\ feedback_request = <<>>
    /\ feedback_response = <<>>
    /\ feedback_log = <<>>
    /\ initial_history = <<>>

NoOther == NoDataset /\ NoFiles /\ NoCalls /\ NoServer /\ NoBackend

\* The inference module is not imported.
NoApi ==
    /\ average_listening_count = 0
    /\ songs_metadata = {}
    /\ users_listenings = <<>>
    /\ most_similar_user_index = -1
    /\ reco = NotCalled

\* dict.setdefault(key, len(dict)) : the dict after the call.
setdefault_renumber(mapping, key) ==
    (key :> Cardinality(DOMAIN mapping)) @@ mapping

setdefault(mapping, key) ==
    IF key \in DOMAIN mapping
    THEN mapping
    ELSE mapping @@ (key :> Cardinality(DOMAIN mapping))

\* One pass through the body of the for loop, up to the append.
LoadAppend(st, line) ==
    LET um == setdefault(st.USER_MAPPING, line.user_id)
        sm == setdefault(st.SONG_MAPPING, line.song_id)
    IN [dataset_raw  |-> Append(st.dataset_raw,
                                <<um[line.user_id], sm[line.song_id], line.listening_count>>),
        USER_MAPPING |-> um,
        SONG_MAPPING |-> sm]

\* The break test at the end of the loop body.
LoadBreak(raw, n) == Len(raw) >= n

\* user_id, song_id, listening_count = line.split("\t") raises ValueError
\* unless split returns three strings.
Unpacks(line) == line.fields = 3

\* Where load is after a line that does not unpack.
UnpackError_skip == "load_loop"

UnpackError == "load_ValueError"

LoadStart == [dataset_raw |-> <<>>, USER_MAPPING |-> EmptyDict, SONG_MAPPING |-> EmptyDict]

\* for line in dataset_file: ... ; one iteration.
LoadLine ==
    /\ pc = "load_loop"
    /\ lineno < Len(train_triplets)
    /\ IF Unpacks(train_triplets[lineno + 1])
       THEN LET st == LoadAppend([dataset_raw |-> dataset_raw, USER_MAPPING |-> USER_MAPPING,
                                  SONG_MAPPING |-> SONG_MAPPING], train_triplets[lineno + 1])
            IN /\ dataset_raw' = st.dataset_raw
               /\ USER_MAPPING' = st.USER_MAPPING
               /\ SONG_MAPPING' = st.SONG_MAPPING
               /\ pc' = IF LoadBreak(st.dataset_raw, max_size) THEN "load_done" ELSE "load_loop"
       ELSE /\ pc' = UnpackError
            /\ UNCHANGED <<dataset_raw, USER_MAPPING, SONG_MAPPING>>
    /\ lineno' = lineno + 1
    /\ UNCHANGED <<train_triplets, train_triplets_exists, max_size, modelVars, apiVars,
                   trainVars, otherVars>>

\* open(...): FileNotFoundError when the file does not exist.
LoadOpen ==
    /\ pc = "load_open"
    /\ pc' = IF train_triplets_exists THEN "load_loop" ELSE "load_FileNotFoundError"
    /\ UNCHANGED <<loadVars, modelVars, apiVars, trainVars, otherVars>>

\* End of input: the loop ends and load returns.
LoadEOF ==
    /\ pc = "load_loop"
    /\ lineno = Len(train_triplets)
    /\ pc' = "load_done"
    /\ UNCHANGED <<loadVars, modelVars, apiVars, trainVars, otherVars>>

InitLoad ==
    /\ train_triplets \in SeqsUpTo(Lines \cup MalformedLines, MaxLines)
    /\ train_triplets_exists \in BOOLEAN
    /\ ~train_triplets_exists => train_triplets = <<>>
    /\ max_size \in 0..MaxSize
    /\ pc = "load_open"
    /\ lineno = 0
    /\ dataset_raw = <<>>
    /\ USER_MAPPING = EmptyDict
    /\ SONG_MAPPING = EmptyDict
    /\ NoModel
    /\ NoApi
    /\ NoTrain
    /\ NoOther

NextLoad == LoadOpen \/ LoadLine \/ LoadEOF

SpecLoad == InitLoad /\ [][NextLoad]_vars

\* ------------------------------------------------------------------------
\* Claims on dataset.load
\* ------------------------------------------------------------------------
\* The lines load is meant to have read: the first min(N, #lines).
FirstLines == SubSeq(train_triplets, 1, Min(max_size, Len(train_triplets)))

IdsOf(lines, field) == {lines[i][field] : i \in 1..Len(lines)}

FirstSeen(lines, field, id) ==
    CHOOSE i \in 1..Len(lines) :
        /\ lines[i][field] = id
        /\ \A j \in 1..(i - 1) : lines[j][field] # id

MappingOK(mapping, field) ==
    /\ DOMAIN mapping = IdsOf(FirstLines, field)
    /\ \A a, b \in DOMAIN mapping : mapping[a] = mapping[b] => a = b
    /\ {mapping[a] : a \in DOMAIN mapping} = 0..(Cardinality(IdsOf(FirstLines, field)) - 1)
    /\ \A a, b \in DOMAIN mapping :
          FirstSeen(FirstLines, field, a) < FirstSeen(FirstLines, field, b)
              => mapping[a] < mapping[b]

\* C1: for N >= 1 the mappings load returns are injective, take exactly the
\* values 0..k-1 for the k distinct identifiers of the first min(N, #lines)
\* lines, and number the identifiers in first-occurrence order.
C1_MappingsFirstSeen ==
    (pc = "load_done" /\ max_size >= 1) =>
        /\ MappingOK(USER_MAPPING, "user_id")
        /\ MappingOK(SONG_MAPPING, "song_id")

C1_Witness ==
    /\ pc = "load_done"
    /\ max_size >= 1
    /\ max_size < Len(train_triplets)
    /\ Cardinality(DOMAIN USER_MAPPING) = 2
    /\ DOMAIN SONG_MAPPING = {"s1", "s2"}
    /\ SONG_MAPPING["s2"] = 0
    /\ SONG_MAPPING["s1"] = 1

\* C2: load returns exactly min(N, #lines) records, the first lines of the
\* file in file order, for every N including N = 0.
C2_HardCap ==
    pc = "load_done" =>
        /\ Len(dataset_raw) = Len(FirstLines)
        /\ \A i \in 1..Len(dataset_raw) :
              /\ dataset_raw[i][1] = USER_MAPPING[FirstLines[i].user_id]
              /\ dataset_raw[i][2] = SONG_MAPPING[FirstLines[i].song_id]
              /\ dataset_raw[i][3] = FirstLines[i].listening_count


LoadRaised == pc \in {"load_ValueError", "load_FileNotFoundError"}

\* C16 (as amended): load raises, and so returns nothing, when the file is
\* missing or when one of the lines it reads does not split into three
\* fields; it reads the first max(N, 1) lines, a returned dataset is built
\* from all of them, and a malformed line after them is never read.
C16_AbortsOnMalformedRead ==
    /\ pc = "load_done" =>
          /\ train_triplets_exists
          /\ \A i \in 1..lineno : Unpacks(train_triplets[i])
          /\ Len(dataset_raw) = lineno
          /\ lineno = Len(train_triplets) \/ lineno >= max_size
    /\ pc = "load_ValueError" =>
          /\ ~Unpacks(train_triplets[lineno])
          /\ lineno <= IF max_size >= 1 THEN max_size ELSE 1
    /\ pc = "load_FileNotFoundError" => ~train_triplets_exists
    /\ (pc \notin {"load_open", "load_loop"}
            /\ train_triplets_exists
            /\ \E i \in 1..Len(train_triplets) :
                  /\ i <= (IF max_size >= 1 THEN max_size ELSE 1)
                  /\ ~Unpacks(train_triplets[i]))
          => pc = "load_ValueError"

\* C16 (as claimed): load raises whenever some line of the file does not split
\* into three fields, or the file is missing.
C16_AbortsOnAnyMalformed ==
    (pc \notin {"load_open", "load_loop"}
        /\ (~train_triplets_exists
               \/ \E i \in 1..Len(train_triplets) : ~Unpacks(train_triplets[i])))
      => LoadRaised

C16_Witness ==
    /\ pc = "load_ValueError"
    /\ max_size = 3
    /\ lineno = 2
    /\ Len(dataset_raw) = 1
    /\ Len(train_triplets) = 3
    /\ train_triplets[2].fields = 1

\* ------------------------------------------------------------------------
\* api.py: module initialisation
\* ------------------------------------------------------------------------
NSongs == 6
NUsers == 2
LatentDim == 2
MaxQueryLen == 2

DATASET_SIZE == 4000000

TopK == 5

SongNames == <<"s1", "s2", "s3", "s4", "s5", "s6", "s7", "s8">>
UserNames == <<"u1", "u2", "u3", "u4">>

\* A song identifier that does not occur in the training file.
UnknownSong == SongNames[NSongs + 1]

\* The training file the inference module loads: NSongs songs, NUsers users,
\* the song named last is seen first.
TrainingFile ==
    [i \in 1..NSongs |->
        [user_id |-> UserNames[((i - 1) % NUsers) + 1],
         song_id |-> SongNames[NSongs + 1 - i],
         listening_count |-> 2,
         fields |-> 3]]

\* load(max_size) on the lines `file`, from line k on: the whole loop.
RECURSIVE LoadFrom(_, _, _, _)
LoadFrom(st, k, file, n) ==
    IF k > Len(file)
    THEN st
    ELSE LET st2 == LoadAppend(st, file[k])
         IN IF LoadBreak(st2.dataset_raw, n) THEN st2 ELSE LoadFrom(st2, k + 1, file, n)

load(file, n) == LoadFrom(LoadStart, 1, file, n)

\* s[lo] + ... + s[hi] of integers, by halves.
RECURSIVE SumRange(_, _, _)
SumRange(s, lo, hi) ==
    IF lo > hi
    THEN 0
    ELSE IF lo = hi
         THEN s[lo]
         ELSE LET mid == (lo + hi) \div 2
              IN SumRange(s, lo, mid) + SumRange(s, mid + 1, hi)

SumSeq(s) == SumRange(s, 1, Len(s))

\* dataset["Listening count"].mean(); the files of the model have an integral mean.
MeanCount(raw) == SumSeq([i \in 1..Len(raw) |-> raw[i][3]]) \div Len(raw)

SongIdx == 0..(Cardinality(DOMAIN SONG_MAPPING) - 1)
UserIdx == 0..(Cardinality(DOMAIN USER_MAPPING) - 1)

\* songs_metadata_indices: the trained indices of the catalog's songs.
songs_metadata_indices ==
    {SONG_MAPPING[id] : id \in {m \in songs_metadata : m \in DOMAIN SONG_MAPPING}}

SONG_MAPPING_REVERT ==
    [idx \in {SONG_MAPPING[id] : id \in DOMAIN SONG_MAPPING} |->
        CHOOSE id \in DOMAIN SONG_MAPPING : SONG_MAPPING[id] = idx]

\* A row of LatentDim equal entries.
Row(v) == [k \in 1..LatentDim |-> v]

\* User-side parameters of one user: (entry of the p row, b_user).
UserProfiles == {<<0, 0>>, <<1, 1>>}

\* Song-side parameters the persisted model may hold.
QChoices(n) ==
    { [i \in 0..(n - 1) |-> Row(0)],
      [i \in 0..(n - 1) |-> Row(i % 2)] }

BSongChoices(n) ==
    { [i \in 0..(n - 1) |-> i],
      [i \in 0..(n - 1) |-> n - 1 - i],
      [i \in 0..(n - 1) |-> i \div 2] }

\* Catalogs: only a foreign song, every trained song and a foreign one, every
\* trained song but one, a single trained song and a foreign one.
MetadataChoices(trained) ==
    {{UnknownSong}, trained \cup {UnknownSong}}
        \cup {trained \ {id} : id \in {SongNames[1], SongNames[NSongs]}}
        \cup {{SongNames[2], UnknownSong}}

InitReco ==
    /\ pc = "api_ready"
    /\ train_triplets = TrainingFile
    /\ train_triplets_exists = TRUE
    /\ max_size = DATASET_SIZE
    /\ lineno = Len(TrainingFile)
    /\ LET st == load(TrainingFile, DATASET_SIZE)
       IN /\ dataset_raw = st.dataset_raw
          /\ USER_MAPPING = st.USER_MAPPING
          /\ SONG_MAPPING = st.SONG_MAPPING
          /\ average_listening_count = MeanCount(st.dataset_raw)
          /\ songs_metadata \in MetadataChoices(DOMAIN st.SONG_MAPPING)
          /\ q \in QChoices(Cardinality(DOMAIN st.SONG_MAPPING))
          /\ b_song \in BSongChoices(Cardinality(DOMAIN st.SONG_MAPPING))
          /\ \E prof \in [0..(Cardinality(DOMAIN st.USER_MAPPING) - 1) -> UserProfiles] :
                /\ p = [u \in DOMAIN prof |-> Row(prof[u][1])]
                /\ b_user = [u \in DOMAIN prof |-> prof[u][2]]
    /\ users_listenings = <<>>
    /\ most_similar_user_index = -1
    /\ reco = NotCalled
    /\ NoTrain
    /\ NoOther

\* ------------------------------------------------------------------------
\* api.get_recommendations
\* ------------------------------------------------------------------------
\* Pairs of a query: the songs of index 0 and 1 and a song never trained.
QueryPairs ==
    {<<SongNames[NSongs], 1>>, <<SongNames[NSongs], 3>>,
     <<SongNames[NSongs - 1], 3>>, <<UnknownSong, 1>>}

Queries == SeqsUpTo(QueryPairs, MaxQueryLen)

\* The dict comprehension: later pairs of a song replace earlier ones; a
\* lookup of an identifier that is not a key raises KeyError.
RECURSIVE user_song_indexes_nofilter(_)
user_song_indexes_nofilter(listenings) ==
    IF listenings = <<>>
    THEN [KeyError |-> FALSE, items |-> EmptyDict]
    ELSE LET before == user_song_indexes_nofilter(SubSeq(listenings, 1, Len(listenings) - 1))
             pair == listenings[Len(listenings)]
         IN IF pair[1] \in DOMAIN SONG_MAPPING
            THEN [KeyError |-> before.KeyError,
                  items |-> (SONG_MAPPING[pair[1]] :> pair[2]) @@ before.items]
            ELSE [KeyError |-> TRUE, items |-> before.items]

RECURSIVE user_song_indexes(_)
user_song_indexes(listenings) ==
    IF listenings = <<>>
    THEN [KeyError |-> FALSE, items |-> EmptyDict]
    ELSE LET before == user_song_indexes(SubSeq(listenings, 1, Len(listenings) - 1))
             pair == listenings[Len(listenings)]
         IN IF pair[1] \in DOMAIN SONG_MAPPING
            THEN [KeyError |-> before.KeyError,
                  items |-> (SONG_MAPPING[pair[1]] :> pair[2]) @@ before.items]
            ELSE before

\* The ascending sequence of a finite set of integers.
RECURSIVE SortedSeq(_)
SortedSeq(S) ==
    IF S = {}
    THEN <<>>
    ELSE LET m == CHOOSE x \in S : \A y \in S : x <= y
         IN <<m>> \o SortedSeq(S \ {m})

Dot(a, b) == SumSeq([k \in 1..Len(a) |-> a[k] * b[k]])

\* Predicted count of user u for song i.
Predicted(u, i) == Dot(p[u], q[i]) + average_listening_count + b_user[u] + b_song[i]

\* user_songs_selector applied: the selected rows of q, by ascending index.
user_songs_selected(items) == SortedSeq({idx \in DOMAIN q : idx \in DOMAIN items})

\* dataset.normalize on a sequence of integral counts. Entry k of the result is
\* (c_k - mean) / std = D[k] * sqrt(n / V), with D[k] = n*c_k - sum(c) and
\* V = sum(D[k]^2); a zero standard deviation (V = 0) makes every entry
\* 0/0 = NaN.
normalize(counts) ==
    LET n == Len(counts)
        D == [k \in 1..n |-> n * counts[k] - SumSeq(counts)]
        V == SumSeq([k \in 1..n |-> D[k] * D[k]])
    IN [nan |-> V = 0, D |-> D, n |-> n, V |-> V]

Reverse(s) == [k \in 1..Len(s) |-> s[Len(s) + 1 - k]]

\* sorted(user_song_indexes.items(), key=lambda key_value: key_value[0]): the
\* song indexes in the order of the query vector's components.
sorted_items_reverse(items) == Reverse(SortedSeq(DOMAIN items))

sorted_items(items) == SortedSeq(DOMAIN items)

\* The query's counts, sorted by song index, normalized.
user_vector(items) ==
    LET sorted == sorted_items(items)
    IN normalize([k \in 1..Len(sorted) |-> items[sorted[k]]])

\* Predicted counts of every trained user for the selected songs.
p_user_songs(items) ==
    LET sel == user_songs_selected(items)
    IN [u \in DOMAIN p |-> [k \in 1..Len(sel) |-> Predicted(u, sel[k])]]

\* ((p_user_songs - user_vector) ** 2).sum(axis=1). The distance of user u is
\* A - 2*B*sqrt(n/V) + n with A = sum(a_k^2) and B = sum(a_k * D[k]); it is NaN
\* when the query vector is.
p_user_songs_dist(items) ==
    LET uv == user_vector(items)
        ps == p_user_songs(items)
    IN [u \in DOMAIN p |->
          [nan |-> uv.nan,
           A |-> SumSeq([k \in 1..uv.n |-> ps[u][k] * ps[u][k]]),
           B |-> SumSeq([k \in 1..uv.n |-> ps[u][k] * uv.D[k]]),
           n |-> uv.n,
           V |-> uv.V]]

\* d < e for two distances of one query: with X = d.A - e.A and
\* Y = 2*(d.B - e.B), d < e iff X < Y * sqrt(n/V). Never true of a NaN.
DistLess(d, e) ==
    /\ ~d.nan
    /\ ~e.nan
    /\ LET X == d.A - e.A
           Y == 2 * (d.B - e.B)
       IN IF Y > 0 THEN X <= 0 \/ X * X * d.V < Y * Y * d.n
          ELSE IF Y = 0 THEN X < 0
          ELSE X < 0 /\ X * X * d.V > Y * Y * d.n

\* The values argsort()[0] can take: numpy's default sort is not stable, so any
\* index of a smallest distance; NaN compare with nothing, any index at all.
argsort_last(dist) ==
    {u \in DOMAIN dist : \A v \in DOMAIN dist : ~DistLess(dist[u], dist[v])}

argsort_first(dist) ==
    {u \in DOMAIN dist : \A v \in DOMAIN dist : ~DistLess(dist[v], dist[u])}

\* Predictions of the kept user for all songs.
most_similar_user_predictions(u) == [i \in DOMAIN q |-> Predicted(u, i)]

\* The indices of the predictions that are in the metadata catalog, ascending.
valid_indices_unfiltered(preds) == SortedSeq(DOMAIN preds)

valid_indices(preds) ==
    LET catalog == songs_metadata_indices
    IN SortedSeq({idx \in DOMAIN preds : idx \in catalog})

\* The results argsort() can give on a sequence of numbers: every ordering of
\* the positions by ascending value (equal values in any order).
RECURSIVE ArgsortFrom(_, _)
ArgsortFrom(a, S) ==
    IF S = {}
    THEN {<<>>}
    ELSE UNION { {<<i>> \o t : t \in ArgsortFrom(a, S \ {i})} :
                 i \in {j \in S : \A k \in S : a[j] <= a[k]} }

argsort(a) == ArgsortFrom(a, DOMAIN a)

\* order[-5:][::-1]
LastReversed_first(order) ==
    Reverse(SubSeq(order, 1, Min(TopK, Len(order))))

LastReversed_six(order) ==
    Reverse(SubSeq(order, IF Len(order) > TopK + 1 THEN Len(order) - TopK ELSE 1, Len(order)))

LastReversed(order) ==
    Reverse(SubSeq(order, IF Len(order) > TopK THEN Len(order) - TopK + 1 ELSE 1, Len(order)))

\* valid_indices[...argsort()[-5:][::-1]] for one result of argsort.
top_songs(valid, order) ==
    LET kept == LastReversed(order)
    IN [k \in 1..Len(kept) |-> valid[kept[k]]]

Returned(songs) == [kind |-> "list", songs |-> songs]
Raised(error) == [kind |-> error, songs |-> <<>>]

\* if not user_song_indexes: return []
NoKnownSongs_never(items) == FALSE

NoKnownSongs(items) == DOMAIN items = {}

\* get_recommendations(users_listenings): the outcomes the call can have, each
\* with the user it kept (-1 when it kept none).
get_recommendations(listenings) ==
    LET usi == user_song_indexes(listenings)
    IN IF usi.KeyError
       THEN {[user |-> -1, reco |-> Raised("KeyError")]}
       ELSE IF NoKnownSongs(usi.items)
       THEN {[user |-> -1, reco |-> Returned(<<>>)]}
       ELSE LET revert == SONG_MAPPING_REVERT
            IN UNION {
              LET preds == most_similar_user_predictions(u)
                  valid == valid_indices(preds)
              IN IF valid = <<>>
                 THEN {[user |-> u, reco |-> Raised("IndexError")]}
                 ELSE {[user |-> u,
                        reco |-> Returned(LET top == top_songs(valid, order)
                                          IN [k \in 1..Len(top) |-> revert[top[k]]])] :
                       order \in argsort([k \in 1..Len(valid) |-> preds[valid[k]]])}
              : u \in argsort_first(p_user_songs_dist(usi.items)) }

\* One call of get_recommendations, from the argument to the return or raise.
GetRecommendations ==
    /\ pc = "api_ready"
    /\ \E listenings \in Queries :
        \E out \in get_recommendations(listenings) :
           /\ users_listenings' = listenings
           /\ most_similar_user_index' = out.user
           /\ reco' = out.reco
    /\ pc' = "api_returned"
    /\ UNCHANGED <<loadVars, modelVars, average_listening_count, songs_metadata, trainVars, otherVars>>

\* The caller takes the outcome; the locals of the call are gone and the module
\* is ready for the next call.
GetRecommendationsDone ==
    /\ pc = "api_returned"
    /\ pc' = "api_ready"
    /\ users_listenings' = <<>>
    /\ most_similar_user_index' = -1
    /\ reco' = NotCalled
    /\ UNCHANGED <<loadVars, modelVars, average_listening_count, songs_metadata, trainVars, otherVars>>

NextReco == GetRecommendations \/ GetRecommendationsDone

SpecReco == InitReco /\ [][NextReco]_vars

\* ------------------------------------------------------------------------
\* Claims on get_recommendations
\* ------------------------------------------------------------------------
QuerySongIds(listenings) == {listenings[k][1] : k \in 1..Len(listenings)}

\* The query without the pairs of songs that are not in the song mapping.
RECURSIVE KnownPairs(_)
KnownPairs(listenings) ==
    IF listenings = <<>>
    THEN <<>>
    ELSE IF listenings[1][1] \in DOMAIN SONG_MAPPING
         THEN <<listenings[1]>> \o KnownPairs(Tail(listenings))
         ELSE KnownPairs(Tail(listenings))


\* The returned identifiers as song indices.
RecoIdx == [k \in 1..Len(reco.songs) |-> SONG_MAPPING[reco.songs[k]]]

\* C3: a query none of whose songs is in the song mapping returns the empty
\* list and raises nothing, whatever the model and the catalog are.
C3_AllUnknownReturnsEmpty ==
    (pc = "api_returned" /\ QuerySongIds(users_listenings) \cap DOMAIN SONG_MAPPING = {})
        => reco = Returned(<<>>)

C3_Witness ==
    /\ pc = "api_returned"
    /\ Len(users_listenings) = 2
    /\ QuerySongIds(users_listenings) \cap DOMAIN SONG_MAPPING = {}
    /\ songs_metadata # {}
    /\ reco = Returned(<<>>)

\* C4: unknown songs are invisible: a query with pairs of unknown songs
\* inserted anywhere has exactly the outcomes of the query without them, and
\* no call raises a lookup fault.
C4_UnknownSongsInvisible ==
    pc = "api_returned" =>
        LET without == get_recommendations(KnownPairs(users_listenings))
        IN /\ reco.kind # "KeyError"
           /\ [user |-> most_similar_user_index, reco |-> reco] \in without
           /\ KnownPairs(users_listenings) # users_listenings
                  => get_recommendations(users_listenings) = without

C4_Witness ==
    /\ pc = "api_returned"
    /\ Len(users_listenings) = 2
    /\ users_listenings[1][1] = UnknownSong
    /\ users_listenings[2][1] \in DOMAIN SONG_MAPPING
    /\ Len(reco.songs) > 0

\* C5: the returned list has at most 5 entries and no song twice.
C5_AtMostFiveDistinct ==
    (pc = "api_returned" /\ reco.kind = "list") =>
        /\ Len(reco.songs) <= TopK
        /\ \A j, k \in 1..Len(reco.songs) : reco.songs[j] = reco.songs[k] => j = k

C5_Witness ==
    /\ pc = "api_returned"
    /\ reco.kind = "list"
    /\ Cardinality(songs_metadata_indices) > TopK
    /\ Len(reco.songs) = TopK

\* C6 (as amended): a returned list for a query with a known song holds the
\* (up to) 5 catalog songs with the highest predicted score of the kept user,
\* in non-increasing order of score.
C6_TopFiveByScore ==
    (pc = "api_returned" /\ reco.kind = "list" /\ most_similar_user_index # -1) =>
        LET preds == most_similar_user_predictions(most_similar_user_index)
        IN /\ SeqToSet(RecoIdx) \subseteq songs_metadata_indices
           /\ Len(RecoIdx) = Min(TopK, Cardinality(songs_metadata_indices))
           /\ \A k \in 1..(Len(RecoIdx) - 1) : preds[RecoIdx[k]] >= preds[RecoIdx[k + 1]]
           /\ \A j \in songs_metadata_indices \ SeqToSet(RecoIdx) :
                 \A k \in 1..Len(RecoIdx) : preds[j] <= preds[RecoIdx[k]]

\* C6 (as claimed): ... and of two candidates with equal predicted scores the
\* one with the smaller song index is ranked first and is the one kept at the
\* cut-off.
C6_TiesBySmallerIndex ==
    (pc = "api_returned" /\ reco.kind = "list" /\ most_similar_user_index # -1) =>
        LET preds == most_similar_user_predictions(most_similar_user_index)
        IN /\ C6_TopFiveByScore
           /\ \A k \in 1..(Len(RecoIdx) - 1) :
                 preds[RecoIdx[k]] = preds[RecoIdx[k + 1]] => RecoIdx[k] < RecoIdx[k + 1]
           /\ \A j \in songs_metadata_indices \ SeqToSet(RecoIdx) :
                 \A k \in 1..Len(RecoIdx) : preds[j] = preds[RecoIdx[k]] => RecoIdx[k] < j

C6_Witness ==
    /\ pc = "api_returned"
    /\ reco.kind = "list"
    /\ most_similar_user_index # -1
    /\ Len(reco.songs) = TopK
    /\ Cardinality(songs_metadata_indices) > TopK
    /\ LET preds == most_similar_user_predictions(most_similar_user_index)
       IN /\ preds[RecoIdx[1]] > preds[RecoIdx[TopK]]
          /\ \E j \in songs_metadata_indices \ SeqToSet(RecoIdx) :
                preds[j] = preds[RecoIdx[TopK]]

\* The distances of the trained users to the query of the last call.
LastDist == p_user_songs_dist(user_song_indexes(users_listenings).items)

\* C7 (as amended): no trained user is strictly nearer to the query vector than
\* the user kept.
C7_NoUserNearer ==
    (pc = "api_returned" /\ most_similar_user_index # -1) =>
        /\ most_similar_user_index \in UserIdx
        /\ \A v \in UserIdx : ~DistLess(LastDist[v], LastDist[most_similar_user_index])

\* C7 (as claimed): the user kept has the minimal distance over all trained
\* users and is the lowest index among the users at the minimum.
C7_NearestLowestIndex ==
    (pc = "api_returned" /\ most_similar_user_index # -1) =>
        /\ C7_NoUserNearer
        /\ \A v \in UserIdx :
              ~DistLess(LastDist[most_similar_user_index], LastDist[v])
                  => most_similar_user_index <= v

C7_Witness ==
    /\ pc = "api_returned"
    /\ most_similar_user_index = 1
    /\ ~LastDist[1].nan
    /\ DistLess(LastDist[1], LastDist[0])

\* C8: every returned song is in the song mapping and in the metadata catalog,
\* even when a song outside the catalog has a higher predicted score.
C8_OnlyCatalogSongs ==
    (pc = "api_returned" /\ reco.kind = "list") =>
        \A k \in 1..Len(reco.songs) :
            /\ reco.songs[k] \in DOMAIN SONG_MAPPING
            /\ reco.songs[k] \in songs_metadata

C8_Witness ==
    /\ pc = "api_returned"
    /\ reco.kind = "list"
    /\ Len(reco.songs) > 0
    /\ \E id \in DOMAIN SONG_MAPPING \ songs_metadata :
          \A k \in 1..Len(reco.songs) :
              most_similar_user_predictions(most_similar_user_index)[SONG_MAPPING[id]]
                  > most_similar_user_predictions(most_similar_user_index)[RecoIdx[k]]

\* C9: with no trained song in the catalog, a query with a known song returns
\* the empty list rather than raising.
C9_EmptyCatalogReturnsEmpty ==
    (pc = "api_returned" /\ songs_metadata_indices = {} /\ most_similar_user_index # -1)
        => reco = Returned(<<>>)

\* ------------------------------------------------------------------------
\* float64 arithmetic of train: exact integers of magnitude up to FloatMax;
\* NaN stands for every non-finite value (NaN, and inf after an overflow).
\* ------------------------------------------------------------------------
FloatMax == 10000
MaxTrain == 2
MaxEpochs == 2

NaN == FloatMax + 1

Fl(x) == IF x > FloatMax \/ x < -FloatMax THEN NaN ELSE x

FAdd(a, b) == IF a = NaN \/ b = NaN THEN NaN ELSE Fl(a + b)
FSub(a, b) == IF a = NaN \/ b = NaN THEN NaN ELSE Fl(a - b)
FMul(a, b) == IF a = NaN \/ b = NaN THEN NaN ELSE Fl(a * b)

\* The entries added from left to right: NaN as soon as an entry or a partial
\* sum is NaN.
FSum(s) ==
    IF \/ \E k \in 1..Len(s) : s[k] = NaN
       \/ \E k \in 1..Len(s) : Fl(SumRange(s, 1, k)) = NaN
    THEN NaN
    ELSE SumRange(s, 1, Len(s))

FDot(a, b) == FSum([k \in 1..Len(a) |-> FMul(a[k], b[k])])

\* scalar * vector, vector + vector, vector - vector
FScale(c, a) == [k \in 1..Len(a) |-> FMul(c, a[k])]
FVecAdd(a, b) == [k \in 1..Len(a) |-> FAdd(a[k], b[k])]
FVecSub(a, b) == [k \in 1..Len(a) |-> FSub(a[k], b[k])]

\* train_set["Listening count"].mean(): NaN for an empty set or a NaN count;
\* the sets of the model have an integral mean.
FMean(set) ==
    IF set = <<>> \/ \E k \in 1..Len(set) : set[k][3] = NaN
    THEN NaN
    ELSE SumSeq([k \in 1..Len(set) |-> set[k][3]]) \div Len(set)

\* ------------------------------------------------------------------------
\* train.train
\* ------------------------------------------------------------------------
TrainUsers == 0..1
TrainSongs == 0..1

\* Normalized listening counts that are integers (a z-scored dataset such as
\* -1, 1, -1, 1).
TrainCounts == {-1, 1}

Triplets == TrainUsers \X TrainSongs \X TrainCounts

\* The validation sets of the model: empty, or one triplet.
ValidationSets == {<<>>, <<<<0, 0, 1>>>>, <<<<1, 1, -1>>>>}

\* normalize on a dataset whose counts are all equal: every count is NaN.
AllNaN(set) == [k \in 1..Len(set) |-> <<set[k][1], set[k][2], NaN>>]

\* The models train is started on: all parameters 0, all 1, or song and user
\* parameters that differ.
TrainModels ==
    { [q |-> [i \in TrainSongs |-> Row(0)], p |-> [u \in TrainUsers |-> Row(0)],
       b_song |-> [i \in TrainSongs |-> 0], b_user |-> [u \in TrainUsers |-> 0]],
      [q |-> [i \in TrainSongs |-> Row(1)], p |-> [u \in TrainUsers |-> Row(1)],
       b_song |-> [i \in TrainSongs |-> 1], b_user |-> [u \in TrainUsers |-> 1]],
      [q |-> [i \in TrainSongs |-> Row(i)], p |-> [u \in TrainUsers |-> Row(1 - u)],
       b_song |-> [i \in TrainSongs |-> 1 - i], b_user |-> [u \in TrainUsers |-> u]] }

\* [np.nan] * n_epochs
NaNList(n) == [k \in 1..n |-> NaN]

\* sqrt(num / den), kept as its radicand.
Sqrt(num, den) == [sqrt_num |-> num, sqrt_den |-> den]

InitTrain ==
    /\ pc = "train_epoch"
    /\ train_triplets = <<>>
    /\ train_triplets_exists = FALSE
    /\ max_size = 0
    /\ lineno = 0
    /\ dataset_raw = <<>>
    /\ USER_MAPPING = EmptyDict
    /\ SONG_MAPPING = EmptyDict
    /\ songs_metadata = {}
    /\ users_listenings = <<>>
    /\ most_similar_user_index = -1
    /\ reco = NotCalled
    /\ \E m \in TrainModels :
          /\ q = m.q
          /\ p = m.p
          /\ b_song = m.b_song
          /\ b_user = m.b_user
          /\ initial_model = m
          /\ caller_model = m
    /\ train_return = NotReturned
    /\ NoOther
    /\ lbd \in {0, 1}
    /\ gamma \in {0, 1}
    /\ n_epochs \in 0..MaxEpochs
    /\ \E ts \in SeqsUpTo(Triplets, MaxTrain), vs \in ValidationSets, nan \in BOOLEAN :
          /\ ts # <<>> => SumSeq([k \in 1..Len(ts) |-> ts[k][3]]) % Len(ts) = 0
          /\ train_set = IF nan THEN AllNaN(ts) ELSE ts
          /\ validation_set = IF nan THEN AllNaN(vs) ELSE vs
          /\ average_listening_count = FMean(IF nan THEN AllNaN(ts) ELSE ts)
    /\ epoch = 0
    /\ pos = 0
    /\ loss_sum = 0
    /\ accuracy_sum = 0
    /\ learning_stats = [losses_train |-> NaNList(n_epochs),
                         losses_validation |-> NaNList(n_epochs),
                         accuracy_train |-> [k \in 1..n_epochs |-> Sqrt(NaN, 1)],
                         accuracy_validation |-> [k \in 1..n_epochs |-> Sqrt(NaN, 1)]]

Shuffles(s) ==
    { t \in [1..Len(s) -> SeqToSet(s)] :
        \E f \in [1..Len(s) -> 1..Len(s)] :
            /\ \A a, b \in 1..Len(s) : f[a] = f[b] => a = b
            /\ t = [k \in 1..Len(s) |-> s[f[k]]] }

\* Start of an epoch: the sums are reset and the training set is shuffled.
TrainEpoch ==
    /\ pc = "train_epoch"
    /\ epoch < n_epochs
    /\ loss_sum' = 0
    /\ accuracy_sum' = 0
    /\ train_set' \in Shuffles(train_set)
    /\ pos' = 0
    /\ pc' = "train_step"
    /\ UNCHANGED <<loadVars, modelVars, apiVars, lbd, gamma, n_epochs, validation_set,
                   epoch, learning_stats, initial_model, caller_model, train_return, otherVars>>

\* Prediction error of a triplet under the parameter values given.
Residual(p_u, q_i, b_u, b_i, listening_count) ==
    FSub(listening_count,
         FAdd(FAdd(FAdd(FDot(p_u, q_i), average_listening_count), b_u), b_i))

\* e_ui**2 + lbd * (norm(q_i)**2 + norm(p_u)**2)
Loss(e_ui, p_u, q_i) ==
    FAdd(FMul(e_ui, e_ui), FMul(lbd, FAdd(FDot(q_i, q_i), FDot(p_u, p_u))))

\* The learning rate the updates are scaled by.
UpdateRate_lbd == lbd

UpdateRate == gamma

CurrentModel == [q |-> q, p |-> p, b_song |-> b_song, b_user |-> b_user]

\* q[song] += ..., b_user[user] += ...: a subscripted augmented assignment
\* stores into the array object the local name is bound to, which is the
\* array the caller passed in (train.py:28 binds the names, nothing rebinds
\* them); `updated` is the contents of the arrays after the stores.
AugmentedAssign_rebind(held, updated) == held

AugmentedAssign(held, updated) == updated

\* q_i = q[song].copy(): the value q_i has when the p update reads it, given
\* the row before and after the in-place update of q[song]. Without the copy
\* q_i would be a view of the row and hold the updated values.
Copy_view(row_before, row_after) == row_after

Copy(row_before, row_after) == row_before

\* One triplet of the epoch: prediction, residual, the four updates, the sums.
TrainStep ==
    /\ pc = "train_step"
    /\ pos < Len(train_set)
    /\ LET user == train_set[pos + 1][1]
           song == train_set[pos + 1][2]
           listening_count == train_set[pos + 1][3]
           p_u == p[user]
           q_i == q[song]
           b_u == b_user[user]
           b_i == b_song[song]
           e_ui == Residual(p_u, q_i, b_u, b_i, listening_count)
       IN /\ q' = [q EXCEPT ![song] =
                     FVecAdd(q_i, FScale(UpdateRate, FVecSub(FScale(e_ui, p_u), FScale(lbd, q_i))))]
          /\ p' = [p EXCEPT ![user] =
                     FVecAdd(p_u, FScale(UpdateRate,
                                         FVecSub(FScale(e_ui, Copy(q_i, q'[song])),
                                                 FScale(lbd, p_u))))]
          /\ b_user' = [b_user EXCEPT ![user] =
                     FAdd(b_u, FMul(UpdateRate, FSub(e_ui, FMul(lbd, b_u))))]
          /\ b_song' = [b_song EXCEPT ![song] =
                     FAdd(b_i, FMul(UpdateRate, FSub(e_ui, FMul(lbd, b_i))))]
          /\ loss_sum' = FAdd(loss_sum, Loss(e_ui, p_u, q_i))
          /\ accuracy_sum' = FAdd(accuracy_sum, FMul(e_ui, e_ui))
    /\ caller_model' = AugmentedAssign(caller_model, CurrentModel')
    /\ pos' = pos + 1
    /\ UNCHANGED <<pc, loadVars, apiVars, lbd, gamma, n_epochs, train_set, validation_set,
                   epoch, learning_stats, initial_model, train_return, otherVars>>

\* Sums of the loss and of the squared error over the validation set, with the
\* current parameters.
ValidationSums ==
    LET e(k) == Residual(p[validation_set[k][1]], q[validation_set[k][2]],
                         b_user[validation_set[k][1]], b_song[validation_set[k][2]],
                         validation_set[k][3])
    IN [loss |-> FSum([k \in 1..Len(validation_set) |->
                          Loss(e(k), p[validation_set[k][1]], q[validation_set[k][2]])]),
        accuracy |-> FSum([k \in 1..Len(validation_set) |-> FMul(e(k), e(k))])]

\* End of an epoch: the statistics of the epoch are written. accuracy_sum and
\* accuracy_validation_sum are the int 0 when the set is empty, and 0 / 0
\* raises ZeroDivisionError.
TrainEpochEnd ==
    /\ pc = "train_step"
    /\ pos = Len(train_set)
    /\ LET written1 == [learning_stats EXCEPT !.losses_train[epoch + 1] = loss_sum]
           written2 == [written1 EXCEPT
                           !.accuracy_train[epoch + 1] = Sqrt(accuracy_sum, Len(train_set))]
           written3 == [written2 EXCEPT !.losses_validation[epoch + 1] = ValidationSums.loss]
           written4 == [written3 EXCEPT
                           !.accuracy_validation[epoch + 1] =
                               Sqrt(ValidationSums.accuracy, Len(validation_set))]
       IN IF Len(train_set) = 0
          THEN /\ learning_stats' = written1
               /\ pc' = "train_ZeroDivisionError"
               /\ epoch' = epoch
          ELSE IF Len(validation_set) = 0
          THEN /\ learning_stats' = written3
               /\ pc' = "train_ZeroDivisionError"
               /\ epoch' = epoch
          ELSE /\ learning_stats' = written4
               /\ pc' = "train_epoch"
               /\ epoch' = epoch + 1
    /\ UNCHANGED <<loadVars, modelVars, apiVars, lbd, gamma, n_epochs, train_set,
                   validation_set, pos, loss_sum, accuracy_sum, initial_model,
                   caller_model, train_return, otherVars>>

\* The for loop over the epochs is over: train returns the model and the stats.
TrainReturn ==
    /\ pc = "train_epoch"
    /\ epoch = n_epochs
    /\ pc' = "train_done"
    /\ train_return' = [kind |-> "returned", model |-> CurrentModel,
                        learning_stats |-> learning_stats]
    /\ UNCHANGED <<loadVars, modelVars, apiVars, lbd, gamma, n_epochs, train_set,
                   validation_set, epoch, pos, loss_sum, accuracy_sum, learning_stats,
                   initial_model, caller_model, otherVars>>

NextTrain == TrainEpoch \/ TrainStep \/ TrainEpochEnd \/ TrainReturn

SpecTrain == InitTrain /\ [][NextTrain]_vars

\* ------------------------------------------------------------------------
\* Claims on train
\* ------------------------------------------------------------------------
TrainRunning == pc \in {"train_epoch", "train_step", "train_done", "train_ZeroDivisionError"}

SGDUpdate(m, t) ==
    LET user == t[1]
        song == t[2]
        e == FSub(t[3], FAdd(FAdd(FAdd(FDot(m.p[user], m.q[song]), average_listening_count),
                                  m.b_user[user]), m.b_song[song]))
    IN [q |-> [m.q EXCEPT ![song] =
                  FVecAdd(m.q[song], FScale(gamma, FVecSub(FScale(e, m.p[user]),
                                                           FScale(lbd, m.q[song]))))],
        p |-> [m.p EXCEPT ![user] =
                  FVecAdd(m.p[user], FScale(gamma, FVecSub(FScale(e, m.q[song]),
                                                           FScale(lbd, m.p[user]))))],
        b_song |-> [m.b_song EXCEPT ![song] =
                  FAdd(m.b_song[song], FMul(gamma, FSub(e, FMul(lbd, m.b_song[song]))))],
        b_user |-> [m.b_user EXCEPT ![user] =
                  FAdd(m.b_user[user], FMul(gamma, FSub(e, FMul(lbd, m.b_user[user]))))]]

\* The model after the updates for the first k triplets, one after the other.
RECURSIVE SGDSequence(_, _, _)
SGDSequence(m, triplets, k) ==
    IF k = 0 THEN m ELSE SGDUpdate(SGDSequence(m, triplets, k - 1), triplets[k])

\* C23: in the first epoch, after k triplets the parameters are those of k
\* updates applied one after the other to the model train was called with,
\* each update computed from the values left by the one before and all four
\* new values of an update computed from the values held before it.
C23_SequentialUpdates ==
    (pc = "train_step" /\ epoch = 0) =>
        CurrentModel = SGDSequence(initial_model, train_set, pos)

C23_Witness ==
    /\ pc = "train_step"
    /\ epoch = 0
    /\ pos = 2
    /\ gamma = 1
    /\ lbd = 1
    /\ train_set[1][1] = train_set[2][1]
    /\ train_set[1][2] = train_set[2][2]
    /\ \A k \in 1..2 : train_set[k][3] # NaN
    /\ q # initial_model.q
    /\ p # initial_model.p
    /\ CurrentModel # SGDUpdate(SGDUpdate(initial_model, train_set[1]), train_set[1])
    /\ CurrentModel # SGDUpdate(initial_model, train_set[2])

StatNames == {"losses_train", "losses_validation", "accuracy_train", "accuracy_validation"}

\* C11: train never leaves the epoch loop early: it does not raise, and when it
\* returns it has completed n_epochs epochs and each of the four stat
\* sequences has length n_epochs.
C11_ExactlyNEpochs ==
    /\ pc # "train_ZeroDivisionError"
    /\ pc = "train_done" =>
          /\ epoch = n_epochs
          /\ \A name \in StatNames : Len(learning_stats[name]) = n_epochs

\* C12: the arrays the caller passed to train are the arrays train updates and
\* returns: while train runs and when it ends the caller's arrays hold the
\* current parameter values, and the returned model equals the caller's arrays.
C12_SameArrays ==
    /\ TrainRunning => caller_model = CurrentModel
    /\ pc = "train_done" =>
          /\ train_return.kind = "returned"
          /\ train_return.model = caller_model

C12_Witness ==
    /\ pc = "train_done"
    /\ n_epochs = 2
    /\ caller_model # initial_model
    /\ train_return.model = caller_model
    /\ \A u \in TrainUsers : caller_model.b_user[u] # NaN

\* ------------------------------------------------------------------------
\* dataset.normalize, called repeatedly on one array
\* ------------------------------------------------------------------------
MaxCounts == 3
MaxNormalizeCalls == 2

\* The listening counts of the raw datasets.
RawCounts == 1..4

\* A float column is kept exactly as [nan, D, n, V]: entry k has the value
\* D[k] * sqrt(n / V), and nan says that every entry is NaN. A column of
\* integers c is [D |-> c, n |-> 1, V |-> 1].
Column(counts) == [nan |-> FALSE, D |-> counts, n |-> 1, V |-> 1]

\* dataset["Listening count"] of a list of (user, song, count).
ListeningCount(raw) == [k \in 1..Len(raw) |-> raw[k][3]]

\* dataset.normalize on a column x with entries s * D[k], s = sqrt(n / V) > 0,
\* m entries: mean = s * sum(D) / m, x[k] - mean = s * E[k] / m with
\* E[k] = m * D[k] - sum(D), std = s * sqrt(W / m^3) with W = sum(E[k]^2)
\* (numpy's std divides by m), so the quotient is E[k] * sqrt(m / W); std = 0
\* gives 0/0 = NaN in every entry.
normalize_scaled_ddof1(x) ==
    LET m == Len(x.D)
        E == [k \in 1..m |-> m * x.D[k] - SumSeq(x.D)]
        W == SumSeq([k \in 1..m |-> E[k] * E[k]])
    IN [nan |-> x.nan \/ W = 0, D |-> E, n |-> m - 1, V |-> W]

normalize_scaled(x) ==
    LET m == Len(x.D)
        E == [k \in 1..m |-> m * x.D[k] - SumSeq(x.D)]
        W == SumSeq([k \in 1..m |-> E[k] * E[k]])
    IN [nan |-> x.nan \/ W = 0, D |-> E, n |-> m, V |-> W]

\* The datasets normalize is called on: what load returns for a file whose
\* line k is (user 0, song k - 1, count).
InitNormalize ==
    /\ pc = "normalize"
    /\ train_triplets = <<>>
    /\ train_triplets_exists = FALSE
    /\ max_size = 0
    /\ lineno = 0
    /\ \E counts \in SeqsUpTo(RawCounts, MaxCounts) :
          /\ dataset_raw = [k \in 1..Len(counts) |-> <<0, k - 1, counts[k]>>]
          /\ dataset = Column(counts)
    /\ USER_MAPPING = EmptyDict
    /\ SONG_MAPPING = EmptyDict
    /\ normalize_calls = 0
    /\ NoModel
    /\ NoApi
    /\ NoTrain
    /\ NoFiles
    /\ NoCalls
    /\ NoBackend
    /\ NoServer

\* normalize(dataset): the column is replaced in place.
Normalize ==
    /\ pc = "normalize"
    /\ normalize_calls < MaxNormalizeCalls
    /\ dataset' = normalize_scaled(dataset)
    /\ normalize_calls' = normalize_calls + 1
    /\ UNCHANGED <<pc, loadVars, modelVars, apiVars, trainVars, persistVars, calls, backendVars,
                   serverVars>>

NextNormalize == Normalize

SpecNormalize == InitNormalize /\ [][NextNormalize]_vars

\* ------------------------------------------------------------------------
\* Claims on normalize
\* ------------------------------------------------------------------------
Sign(x) == IF x > 0 THEN 1 ELSE IF x < 0 THEN -1 ELSE 0

\* The two columns hold the same numbers, entry by entry:
\* D[k] * sqrt(n / V) are compared through their signs and their squares.
SameColumn(x, y) ==
    /\ ~x.nan
    /\ ~y.nan
    /\ Len(x.D) = Len(y.D)
    /\ \A k \in 1..Len(x.D) :
          /\ Sign(x.D[k]) = Sign(y.D[k])
          /\ x.D[k] * x.D[k] * x.n * y.V = y.D[k] * y.D[k] * y.n * x.V

NotAllEqual(counts) == \E j, k \in 1..Len(counts) : counts[j] # counts[k]

\* C13 (as amended): for a dataset whose counts are not all equal, normalize
\* applied twice gives the same listening counts as normalize applied once
\* (the z-scores have mean 0 and standard deviation 1).
C13_NormalizeIdempotent ==
    (pc = "normalize" /\ normalize_calls >= 1 /\ NotAllEqual(ListeningCount(dataset_raw)))
        => SameColumn(dataset, normalize(ListeningCount(dataset_raw)))

\* C13 (as claimed): for a dataset whose counts are not all equal, normalize
\* applied twice gives listening counts different from normalize applied once.
C13_TwiceDiffersFromOnce ==
    (pc = "normalize" /\ normalize_calls = 2 /\ NotAllEqual(ListeningCount(dataset_raw)))
        => ~SameColumn(dataset, normalize(ListeningCount(dataset_raw)))

C13_Witness ==
    /\ pc = "normalize"
    /\ normalize_calls = 2
    /\ ListeningCount(dataset_raw) = <<1, 3>>
    /\ SameColumn(dataset, normalize(ListeningCount(dataset_raw)))
    /\ ~SameColumn(dataset, Column(ListeningCount(dataset_raw)))

\* ------------------------------------------------------------------------
\* model.save and model.load
\* ------------------------------------------------------------------------
\* The models that are saved: two songs and one user, one song and two users
\* with NaN song factors, and no song and no user.
PersistModels ==
    { [q |-> [i \in 0..1 |-> [k \in 1..LatentDim |-> 10 * i + k]],
       p |-> [u \in 0..0 |-> [k \in 1..LatentDim |-> 100 + k]],
       b_song |-> [i \in 0..1 |-> 50 + i],
       b_user |-> [u \in 0..0 |-> 60]],
      [q |-> [i \in 0..0 |-> Row(NaN)],
       p |-> [u \in 0..1 |-> [k \in 1..LatentDim |-> u - k]],
       b_song |-> [i \in 0..0 |-> 0],
       b_user |-> [u \in 0..1 |-> 0 - u]],
      [q |-> <<>>, p |-> <<>>, b_song |-> <<>>, b_user |-> <<>>] }

\* A file that exists and is not a .npy file np.load can read.
Unreadable == [kind |-> "unreadable"]

\* np.save of a one-dimensional array: the header holds the shape, the body
\* the values in index order.
np_save1(a) ==
    LET n == Cardinality(DOMAIN a)
    IN [kind |-> "npy", shape |-> <<n>>, data |-> [j \in 1..n |-> a[j - 1]]]

\* np.save of a two-dimensional array: the header holds the shape (rows, columns),
\* the body the rows one after the other (C order). An array without rows is
\* taken to have LatentDim columns.
np_save2(a) ==
    LET n == Cardinality(DOMAIN a)
        columns == IF n = 0 THEN LatentDim ELSE Len(a[0])
    IN [kind |-> "npy", shape |-> <<n, columns>>,
        data |-> [j \in 1..(n * columns) |->
                     a[(j - 1) \div columns][((j - 1) % columns) + 1]]]

\* The array np.load builds from the header and the body of a .npy file.
Reshape_columns(file) ==
    IF Len(file.shape) = 1
    THEN [i \in 0..(file.shape[1] - 1) |-> file.data[i + 1]]
    ELSE [i \in 0..(file.shape[1] - 1) |->
             [k \in 1..file.shape[2] |-> file.data[(k - 1) * file.shape[1] + i + 1]]]

Reshape(file) ==
    IF Len(file.shape) = 1
    THEN [i \in 0..(file.shape[1] - 1) |-> file.data[i + 1]]
    ELSE [i \in 0..(file.shape[1] - 1) |->
             [k \in 1..file.shape[2] |-> file.data[i * file.shape[2] + k]]]

\* np.load of a name that does not exist.
np_load_missing_empty == [kind |-> "array", array |-> <<>>]

np_load_missing == [kind |-> "FileNotFoundError"]

\* np.load: the array, or the exception raised.
np_load(file) ==
    IF file = Missing THEN np_load_missing
    ELSE IF file = Unreadable THEN [kind |-> "ValueError"]
    ELSE [kind |-> "array", array |-> Reshape(file)]

\* model.save(prefix, (q, p, b_song, b_user)): the files after the call.
save(fs, prefix, model) ==
    [f \in FileNames |->
        IF f = <<prefix, Suffixes[1]>> THEN np_save2(model.q)
        ELSE IF f = <<prefix, Suffixes[2]>> THEN np_save2(model.p)
        ELSE IF f = <<prefix, Suffixes[3]>> THEN np_save1(model.b_song)
        ELSE IF f = <<prefix, Suffixes[4]>> THEN np_save1(model.b_user)
        ELSE fs[f]]

\* model.load(prefix): the four np.load calls in order; the first exception
\* leaves load, otherwise the tuple (q, p, b_song, b_user) is returned.
load_model(fs, prefix) ==
    LET loaded == [k \in 1..4 |-> np_load(fs[<<prefix, Suffixes[k]>>])]
    IN IF loaded[1].kind # "array" THEN [kind |-> loaded[1].kind, prefix |-> prefix]
       ELSE IF loaded[2].kind # "array" THEN [kind |-> loaded[2].kind, prefix |-> prefix]
       ELSE IF loaded[3].kind # "array" THEN [kind |-> loaded[3].kind, prefix |-> prefix]
       ELSE IF loaded[4].kind # "array" THEN [kind |-> loaded[4].kind, prefix |-> prefix]
       ELSE [kind |-> "model", prefix |-> prefix,
             model |-> <<loaded[1].array, loaded[2].array, loaded[3].array, loaded[4].array>>]

InitPersist ==
    /\ pc = "persist_idle"
    /\ train_triplets = <<>>
    /\ train_triplets_exists = FALSE
    /\ max_size = 0
    /\ lineno = 0
    /\ dataset_raw = <<>>
    /\ USER_MAPPING = EmptyDict
    /\ SONG_MAPPING = EmptyDict
    /\ NoModel
    /\ NoApi
    /\ NoTrain
    /\ NoOther

\* save(prefix, model) with the caller's model (q, p, b_song, b_user).
Save ==
    /\ pc = "persist_idle"
    /\ \E prefix \in Prefixes, model \in PersistModels :
          /\ q' = model.q
          /\ p' = model.p
          /\ b_song' = model.b_song
          /\ b_user' = model.b_user
          /\ files' = save(files, prefix, model)
          /\ save_prefix' = prefix
    /\ UNCHANGED <<pc, loadVars, apiVars, trainVars, datasetVars, load_return, calls, backendVars, serverVars>>

\* A file of a saved model is deleted or overwritten by something else.
Damage ==
    /\ pc = "persist_idle"
    /\ \E f \in FileNames, c \in {Missing, Unreadable} :
          /\ files[f] # Missing
          /\ files[f] # c
          /\ files' = [files EXCEPT ![f] = c]
    /\ UNCHANGED <<pc, loadVars, modelVars, apiVars, trainVars, datasetVars, save_prefix,
                   load_return, calls, backendVars, serverVars>>

\* load(prefix)
ModelLoad ==
    /\ pc = "persist_idle"
    /\ \E prefix \in Prefixes : load_return' = load_model(files, prefix)
    /\ pc' = "persist_loaded"
    /\ UNCHANGED <<loadVars, modelVars, apiVars, trainVars, datasetVars, files, save_prefix, calls, backendVars, serverVars>>

\* The caller has taken the outcome of load.
ModelLoadDone ==
    /\ pc = "persist_loaded"
    /\ load_return' = [kind |-> "none"]
    /\ pc' = "persist_idle"
    /\ UNCHANGED <<loadVars, modelVars, apiVars, trainVars, datasetVars, files, save_prefix, calls, backendVars, serverVars>>

NextPersist == Save \/ Damage \/ ModelLoad \/ ModelLoadDone

SpecPersist == InitPersist /\ [][NextPersist]_vars

\* ------------------------------------------------------------------------
\* Claims on save and load
\* ------------------------------------------------------------------------
\* The four files of the prefix are .npy files.
Intact(prefix) == \A k \in 1..4 : files[<<prefix, Suffixes[k]>>].kind = "npy"

\* C14: load(prefix) after save(prefix, model), with the four files as save
\* wrote them, returns the tuple (q, p, b_song, b_user) of arrays equal to the
\* saved ones.
C14_SaveLoadRoundTrip ==
    (pc = "persist_loaded" /\ load_return.prefix = save_prefix /\ Intact(save_prefix))
        => load_return = [kind |-> "model", prefix |-> save_prefix,
                          model |-> <<q, p, b_song, b_user>>]

C14_Witness ==
    /\ pc = "persist_loaded"
    /\ load_return.prefix = save_prefix
    /\ Intact(save_prefix)
    /\ Cardinality(DOMAIN q) = 2
    /\ load_return.model[1] = q
    /\ load_return.model[1] # load_return.model[2]
    /\ \E other \in Prefixes \ {save_prefix} :
          /\ Intact(other)
          /\ files[<<other, Suffixes[1]>>] # files[<<save_prefix, Suffixes[1]>>]

\* C15: when one of the four files of the prefix is missing or unreadable,
\* load raises and the caller receives no model and no array.
C15_LoadAllOrNothing ==
    (pc = "persist_loaded" /\ ~Intact(load_return.prefix))
        => /\ load_return.kind \in {"FileNotFoundError", "ValueError"}
           /\ DOMAIN load_return = {"kind", "prefix"}

C15_Witness ==
    /\ pc = "persist_loaded"
    /\ load_return.kind = "FileNotFoundError"
    /\ files[<<load_return.prefix, Suffixes[1]>>].kind = "npy"
    /\ files[<<load_return.prefix, Suffixes[2]>>].kind = "npy"
    /\ files[<<load_return.prefix, Suffixes[3]>>] = Missing
    /\ files[<<load_return.prefix, Suffixes[4]>>].kind = "npy"

\* ------------------------------------------------------------------------
\* get_recommendations called from several threads
\* ------------------------------------------------------------------------
\* The queries of the threads: two known songs, one known song, an unknown song.
ThreadQueries ==
    { <<<<SongNames[NSongs], 1>>, <<SongNames[NSongs - 1], 3>>>>,
      <<<<SongNames[NSongs], 3>>>>,
      <<<<UnknownSong, 1>>>> }

\* The frame that holds the local names of the call of thread t: every call
\* has its own.
FrameOf_shared(t) == "t1"

FrameOf(t) == t

\* Lines 35-46: the call starts, maps the query and returns [] when no song
\* is known.
ThreadCall(t) ==
    /\ calls[t].pc = "idle"
    /\ \E listenings \in ThreadQueries :
          calls' = [calls EXCEPT ![t] =
                       IF NoKnownSongs(user_song_indexes(listenings).items)
                       THEN [pc |-> "returned", users_listenings |-> listenings,
                             most_similar_user_index |-> -1, reco |-> Returned(<<>>)]
                       ELSE [pc |-> "neighbour", users_listenings |-> listenings,
                             most_similar_user_index |-> -1, reco |-> NotCalled]]
    /\ UNCHANGED <<pc, loadVars, modelVars, apiVars, trainVars, datasetVars, persistVars,
                   serverVars, backendVars>>

\* Lines 53-86: the distances to the trained users and the nearest user.
ThreadNeighbour(t) ==
    /\ calls[t].pc = "neighbour"
    /\ \E u \in argsort_first(p_user_songs_dist(
                               user_song_indexes(calls[t].users_listenings).items)) :
          calls' = [calls EXCEPT ![FrameOf(t)].most_similar_user_index = u,
                                 ![t].pc = "predict"]
    /\ UNCHANGED <<pc, loadVars, modelVars, apiVars, trainVars, datasetVars, persistVars,
                   serverVars, backendVars>>

\* Lines 89-100: the predictions of the kept user, the top songs, the return.
ThreadPredict(t) ==
    /\ calls[t].pc = "predict"
    /\ calls[FrameOf(t)].most_similar_user_index \in DOMAIN p
    /\ LET preds == most_similar_user_predictions(calls[FrameOf(t)].most_similar_user_index)
           valid == valid_indices(preds)
           revert == SONG_MAPPING_REVERT
       IN IF valid = <<>>
          THEN calls' = [calls EXCEPT ![t].reco = Raised("IndexError"), ![t].pc = "returned"]
          ELSE \E order \in argsort([k \in 1..Len(valid) |-> preds[valid[k]]]) :
                  calls' = [calls EXCEPT
                               ![t].reco = Returned(LET top == top_songs(valid, order)
                                                    IN [k \in 1..Len(top) |-> revert[top[k]]]),
                               ![t].pc = "returned"]
    /\ UNCHANGED <<pc, loadVars, modelVars, apiVars, trainVars, datasetVars, persistVars,
                   serverVars, backendVars>>

\* The caller of thread t has taken the outcome.
ThreadDone(t) ==
    /\ calls[t].pc = "returned"
    /\ calls' = [calls EXCEPT ![t] = IdleCall]
    /\ UNCHANGED <<pc, loadVars, modelVars, apiVars, trainVars, datasetVars, persistVars,
                   serverVars, backendVars>>

NextThreads ==
    \E t \in Threads : ThreadCall(t) \/ ThreadNeighbour(t) \/ ThreadPredict(t) \/ ThreadDone(t)

SpecThreads == InitReco /\ [][NextThreads]_vars

\* ------------------------------------------------------------------------
\* Claims on concurrent inference
\* ------------------------------------------------------------------------
\* C17: no step of a get_recommendations call changes q, p, b_song, b_user,
\* the song mapping, the metadata catalog or the global mean, and whatever
\* the interleaving with the calls of the other thread every call keeps a
\* nearest user and returns an outcome that get_recommendations gives for its
\* query alone.
C17_InferenceIsPure ==
    /\ [][UNCHANGED <<q, p, b_song, b_user, SONG_MAPPING, songs_metadata,
                      average_listening_count>>]_vars
    /\ [](\A t \in Threads :
            /\ calls[t].pc = "predict" =>
                  calls[t].most_similar_user_index \in
                      argsort_first(p_user_songs_dist(
                          user_song_indexes(calls[t].users_listenings).items))
            /\ calls[t].pc = "returned" =>
                  [user |-> calls[t].most_similar_user_index, reco |-> calls[t].reco]
                      \in get_recommendations(calls[t].users_listenings))

C17_Witness ==
    /\ calls["t1"].pc = "predict"
    /\ calls["t2"].pc = "returned"
    /\ calls["t1"].users_listenings = calls["t2"].users_listenings
    /\ Len(calls["t1"].users_listenings) = 2
    /\ calls["t2"].reco.kind = "list"
    /\ Len(calls["t2"].reco.songs) = TopK
    /\ calls["t1"].most_similar_user_index = calls["t2"].most_similar_user_index

\* ------------------------------------------------------------------------
\* backend: collaborative_recommender.py and /recommend/next of server.py
\* ------------------------------------------------------------------------
COLD_START_THRESHOLD == 5

ServerUsers == {"cold", "warm"}
ServerSongs == {"a1", "a2", "a3", "a4", "a5", "a6"}
AlgoTypes == {"matriciel", "content", "mix", "other"}

\* Rows of the songs table, with and without a title.
SongRow(id) == [song_id |-> id, title |-> id, artist |-> "artist"]
UntitledRow(id) == [song_id |-> id, title |-> "", artist |-> "artist"]

\* The songs tables of the model: empty, every song, every song without a
\* title, two songs.
SongsTables ==
    { [id \in {} |-> NoTrack],
      [id \in ServerSongs |-> SongRow(id)],
      [id \in ServerSongs |-> UntitledRow(id)],
      [id \in {"a1", "a2"} |-> SongRow(id)] }

\* server.py:224: LIMIT 50
LIMIT == 50

\* LIMIT songs that are in no songs table of the model.
CrowdSongs ==
    { "m01", "m02", "m03", "m04", "m05", "m06", "m07", "m08", "m09", "m10",
      "m11", "m12", "m13", "m14", "m15", "m16", "m17", "m18", "m19", "m20",
      "m21", "m22", "m23", "m24", "m25", "m26", "m27", "m28", "m29", "m30",
      "m31", "m32", "m33", "m34", "m35", "m36", "m37", "m38", "m39", "m40",
      "m41", "m42", "m43", "m44", "m45", "m46", "m47", "m48", "m49", "m50" }

\* The listening histories of the model, one listening_time per row (user_id,
\* song_id): the user "warm" has at least COLD_START_THRESHOLD rows, the user
\* "cold" has fewer. In the last two more than LIMIT songs are listened to,
\* "a1" less than the others or as much as the others.
Histories ==
    { [row \in {"warm"} \X (ServerSongs \ {"a6"}) |-> 1],
      [row \in ({"warm"} \X ServerSongs) \cup ({"cold"} \X (ServerSongs \ {"a5", "a6"})) |->
           IF row[1] = "warm" THEN 1 ELSE 3],
      [row \in ({"warm"} \X CrowdSongs) \cup {<<"cold", "a1">>} |->
           IF row[2] = "a1" THEN 1 ELSE 2],
      [row \in ({"warm"} \X CrowdSongs) \cup {<<"cold", "a1">>} |-> 2] }

\* The song_ids of the rows of listening_history of a user (none for an
\* unknown user or None).
HistoryOf(user_id) == {row[2] : row \in {r \in DOMAIN listening_history : r[1] = user_id}}

\* SUM(lh.listening_time) of the rows of a set.
RECURSIVE SumListening(_)
SumListening(rows) ==
    IF rows = {}
    THEN 0
    ELSE LET row == CHOOSE r \in rows : TRUE
         IN listening_history[row] + SumListening(rows \ {row})

\* Lines 218-228: GROUP BY song_id ORDER BY SUM(listening_time) DESC LIMIT 50,
\* then the rows with a title and an artist. Songs with the same sum come in
\* any order: sure are the songs every order keeps, maybe those some order
\* keeps. cold_start_rows is the set of the possible lists valid_rows, each
\* list given as the set of its song_ids.
cold_start_rows ==
    LET listened == {row[2] : row \in DOMAIN listening_history}
        groups == {<<id, SumListening({r \in DOMAIN listening_history : r[2] = id})>> :
                      id \in listened}
        sure == {g[1] : g \in {h \in groups :
                    Cardinality({t \in groups : t[2] >= h[2]}) <= LIMIT}}
        maybe == {g[1] : g \in {h \in groups :
                     Cardinality({t \in groups : t[2] > h[2]}) < LIMIT}} \ sure
        valid == {id \in listened \cap DOMAIN songs_table :
                     songs_table[id].title # "" /\ songs_table[id].artist # ""}
        taken == LIMIT - Cardinality(sure)
    IN IF maybe = {}
       THEN {sure \cap valid}
       ELSE { (sure \cap valid) \cup some :
                 some \in {v \in SUBSET (maybe \cap valid) :
                              /\ Cardinality(v) <= taken
                              /\ Cardinality(maybe \ valid) >= taken - Cardinality(v)} }

\* What collaborative.api.get_recommendations does when the wrapper calls it:
\* it raises, or returns a list of song ids ("zz" is in no table).
ApiOutcomes ==
    { [kind |-> "raise", songs |-> <<>>],
      [kind |-> "list", songs |-> <<>>],
      [kind |-> "list", songs |-> <<"a1", "zz">>],
      [kind |-> "list", songs |-> <<"a3", "a1">>] }

\* What get_content_based_recommendation does: it raises, returns nothing, or
\* returns a list of tracks.
ContentOutcomes ==
    { [kind |-> "raise", recs |-> <<>>],
      [kind |-> "list", recs |-> <<>>],
      [kind |-> "list", recs |-> <<SongRow("a2"), SongRow("a4")>>] }

\* What get_mix_recommendation does: it raises, or returns (track, reason).
MixOutcomes ==
    { [kind |-> "raise", rec |-> NoTrack, reason |-> ""],
      [kind |-> "pair", rec |-> NoTrack, reason |-> "mix_no_candidates"],
      [kind |-> "pair", rec |-> SongRow("a2"), reason |-> "mix_hybrid"] }

\* collaborative_recommender.py:14-21: the import of collaborative.api runs
\* the module (dataset load, metadata load, model load); any exception is
\* caught and leaves the flag False.
import_collaborative_raises(fs, dataset_exists, metadata_exists) ==
    \/ ~dataset_exists
    \/ ~metadata_exists
    \/ load_model(fs, "model-4000000-40").kind # "model"

is_collaborative_available_always == TRUE

is_collaborative_available == COLLABORATIVE_AVAILABLE

\* collaborative_recommender.get_collaborative_recommendations(user_id, conn,
\* limit), given what the api call does: the list of song rows returned.
get_collaborative_recommendations(user_id, limit, api_out) ==
    IF ~COLLABORATIVE_AVAILABLE THEN <<>>
    ELSE IF HistoryOf(user_id) = {} THEN <<>>
    ELSE IF api_out.kind = "raise" THEN <<>>
    ELSE IF api_out.songs = <<>> THEN <<>>
    ELSE LET top_n == SubSeq(api_out.songs, 1, Min(limit, Len(api_out.songs)))
             InTable(id) == id \in DOMAIN songs_table
             ordered == SelectSeq(top_n, InTable)
         IN [k \in 1..Len(ordered) |-> songs_table[ordered[k]]]

Response(title, artist, algo_used, track) ==
    [song_title |-> [title |-> title, artist |-> artist], algorithm |-> algo_used,
     status |-> "success", track |-> track, http |-> 200]

\* Lines 298-316: the response for the track selected, or the fallback.
Selected(selected_track_obj, algo_used) ==
    IF selected_track_obj # NoTrack
    THEN LET artist == IF selected_track_obj.artist = "" THEN "Unknown Artist"
                       ELSE selected_track_obj.artist
         IN Response(selected_track_obj.title, artist, algo_used,
                     [selected_track_obj EXCEPT !.artist = artist])
    ELSE Response("Hotel California", "The Eagles", algo_used \o <<"_fallback">>, NoTrack)

\* random.choice(recs)
Choice(recs) == {recs[k] : k \in 1..Len(recs)}

ColdStart_never(history_count) == FALSE

\* Line 214: if history_count < COLD_START_THRESHOLD
ColdStart(history_count) == history_count < COLD_START_THRESHOLD

\* The recommenders recommend_next_track calls for user_id and algo_type
\* (lines 250, 265, 282).
Invoked(user_id, algo_type, db_ok) ==
    IF ~db_ok THEN {}
    ELSE IF ColdStart(Cardinality(HistoryOf(user_id))) THEN {}
    ELSE IF algo_type = "content" /\ CONTENT_RECOMMENDER_AVAILABLE /\ content_recommender
    THEN {"content"}
    ELSE IF algo_type = "matriciel" /\ is_collaborative_available
    THEN {"collaborative"}
    ELSE IF algo_type = "mix" /\ MIX_RECOMMENDER_AVAILABLE
    THEN {"mix"}
    ELSE {}

\* What the three recommenders do in a request that calls the recommenders
\* called; a request that calls none depends on none.
RecommenderOutcomes(called) ==
    IF called = {}
    THEN {<<[kind |-> "raise", songs |-> <<>>], [kind |-> "raise", recs |-> <<>>],
            [kind |-> "raise", rec |-> NoTrack, reason |-> ""]>>}
    ELSE ApiOutcomes \X ContentOutcomes \X MixOutcomes

\* recommend_next_track: the responses the handler can give for user_id and
\* algo_type, given whether the database can be read and what the
\* recommenders do.
recommend_next_track(user_id, algo_type, db_ok, api_out, content_out, mix_out) ==
    IF ~db_ok
    THEN {Response("Bohemian Rhapsody", "Queen", <<"error_fallback">>, NoTrack)}
    ELSE IF ColdStart(Cardinality(HistoryOf(user_id)))
    THEN UNION { IF valid_rows # {}
                 THEN {Response(songs_table[id].title, songs_table[id].artist,
                                <<"cold_start_top50">>, songs_table[id]) : id \in valid_rows}
                 ELSE {Response("Bohemian Rhapsody", "Queen", <<"fallback_default">>, NoTrack)} :
                 valid_rows \in cold_start_rows }
    ELSE IF algo_type = "content"
    THEN IF CONTENT_RECOMMENDER_AVAILABLE /\ content_recommender
         THEN IF content_out.kind = "raise"
              THEN {Selected(NoTrack, <<"content_error">>)}
              ELSE IF content_out.recs # <<>>
              THEN {Selected(rec, <<"content_v1">>) : rec \in Choice(content_out.recs)}
              ELSE {Selected(NoTrack, <<"content_empty">>)}
         ELSE {Selected(NoTrack, <<"content_na">>)}
    ELSE IF algo_type = "matriciel"
    THEN IF is_collaborative_available
         THEN LET recs == get_collaborative_recommendations(user_id, 10, api_out)
              IN IF recs # <<>>
                 THEN {Selected(rec, <<"matriciel_v1">>) : rec \in Choice(recs)}
                 ELSE {Selected(NoTrack, <<"matriciel_empty">>)}
         ELSE {Selected(NoTrack, <<"matriciel_na">>)}
    ELSE IF algo_type = "mix"
    THEN IF MIX_RECOMMENDER_AVAILABLE
         THEN IF mix_out.kind = "raise"
              THEN {Selected(NoTrack, <<"mix_error">>)}
              ELSE {Selected(mix_out.rec, <<mix_out.reason>>)}
         ELSE {Selected(NoTrack, <<"mix_na">>)}
    ELSE {Selected(NoTrack, <<algo_type>>)}

\* The model files the backend is started with: none, a saved model, a saved
\* model without its user biases, a saved model with an unreadable q.
ServerFiles ==
    LET none == [f \in FileNames |-> Missing]
        model == CHOOSE m \in PersistModels : Cardinality(DOMAIN m.q) = 2
        saved == save(none, "model-4000000-40", model)
    IN { none, saved,
         [saved EXCEPT ![<<"model-4000000-40", Suffixes[4]>>] = Missing],
         [saved EXCEPT ![<<"model-4000000-40", Suffixes[1]>>] = Unreadable] }

InitServer ==
    /\ pc = "server_import"
    /\ train_triplets = <<>>
    /\ train_triplets_exists \in BOOLEAN
    /\ max_size = 0
    /\ lineno = 0
    /\ dataset_raw = <<>>
    /\ USER_MAPPING = EmptyDict
    /\ SONG_MAPPING = EmptyDict
    /\ NoModel
    /\ NoApi
    /\ NoTrain
    /\ NoDataset
    /\ NoCalls
    /\ NoBackend
    /\ files \in ServerFiles
    /\ save_prefix = ""
    /\ load_return = [kind |-> "none"]
    /\ COLLABORATIVE_AVAILABLE = FALSE
    /\ CONTENT_RECOMMENDER_AVAILABLE \in BOOLEAN
    /\ MIX_RECOMMENDER_AVAILABLE \in BOOLEAN
    /\ content_recommender \in BOOLEAN
    /\ content_recommender => CONTENT_RECOMMENDER_AVAILABLE
    /\ listening_history \in Histories
    /\ songs_table \in SongsTables
    /\ collab_return = <<>>
    /\ request = NoRequest
    /\ response = NoResponse

\* The import of collaborative_recommender by server.py.
ImportCollaborative ==
    /\ pc = "server_import"
    /\ \E metadata_exists \in BOOLEAN :
          COLLABORATIVE_AVAILABLE' =
              ~import_collaborative_raises(files, train_triplets_exists, metadata_exists)
    /\ pc' = "server_ready"
    /\ UNCHANGED <<loadVars, modelVars, apiVars, trainVars, datasetVars, persistVars, calls, backendVars,
                   CONTENT_RECOMMENDER_AVAILABLE, MIX_RECOMMENDER_AVAILABLE,
                   content_recommender, listening_history, songs_table, collab_return,
                   request, response>>

\* GET /recommend/next. userId and algoType are read from the query string;
\* when one is absent ("") request.json is read, which for a request without
\* a JSON body is None or raises 415 Unsupported Media Type, by Flask version.
RecommendNext ==
    /\ pc = "server_ready"
    /\ \E userId \in ServerUsers \cup {""}, algoType \in AlgoTypes \cup {""},
          json_raises \in BOOLEAN, db_ok \in BOOLEAN :
          LET algo_type == IF algoType = "" THEN "matriciel" ELSE algoType
          IN /\ request' = [user_id |-> userId, algo_type |-> algo_type, db_ok |-> db_ok]
             /\ IF (userId = "" \/ algoType = "") /\ json_raises
                THEN /\ response' = [NoResponse EXCEPT !.http = 415]
                     /\ invoked' = {}
                ELSE /\ \E out \in RecommenderOutcomes(Invoked(userId, algo_type, db_ok)) :
                           response' \in recommend_next_track(userId, algo_type, db_ok,
                                                              out[1], out[2], out[3])
                     /\ invoked' = Invoked(userId, algo_type, db_ok)
    /\ pc' = "server_responded"
    /\ UNCHANGED <<loadVars, modelVars, apiVars, trainVars, datasetVars, persistVars, calls,
                   mixVars, feedbackVars,
                   COLLABORATIVE_AVAILABLE, CONTENT_RECOMMENDER_AVAILABLE,
                   MIX_RECOMMENDER_AVAILABLE, content_recommender, listening_history,
                   songs_table, collab_return>>

\* get_collaborative_recommendations(user_id, conn) called on its own.
CollaborativeCall ==
    /\ pc = "server_ready"
    /\ \E user_id \in ServerUsers, api_out \in ApiOutcomes :
          /\ collab_return' = get_collaborative_recommendations(user_id, 10, api_out)
          /\ request' = [user_id |-> user_id, algo_type |-> "", db_ok |-> TRUE]
    /\ pc' = "server_collab_returned"
    /\ UNCHANGED <<loadVars, modelVars, apiVars, trainVars, datasetVars, persistVars, calls, backendVars,
                   COLLABORATIVE_AVAILABLE, CONTENT_RECOMMENDER_AVAILABLE,
                   MIX_RECOMMENDER_AVAILABLE, content_recommender, listening_history,
                   songs_table, response>>

\* The response or the result has been taken.
ServerDone ==
    /\ pc \in {"server_responded", "server_collab_returned"}
    /\ pc' = "server_ready"
    /\ collab_return' = <<>>
    /\ request' = NoRequest
    /\ response' = NoResponse
    /\ invoked' = {}
    /\ UNCHANGED <<loadVars, modelVars, apiVars, trainVars, datasetVars, persistVars, calls,
                   mixVars, feedbackVars,
                   COLLABORATIVE_AVAILABLE, CONTENT_RECOMMENDER_AVAILABLE,
                   MIX_RECOMMENDER_AVAILABLE, content_recommender, listening_history,
                   songs_table>>

NextServer == ImportCollaborative \/ RecommendNext \/ CollaborativeCall \/ ServerDone

SpecServer == InitServer /\ [][NextServer]_vars

\* ------------------------------------------------------------------------
\* Claims on the backend
\* ------------------------------------------------------------------------
\* C18: when the import of the collaborative module fails (dataset file or a
\* model file missing or unreadable), the backend still starts, the
\* availability flag is false, get_collaborative_recommendations returns []
\* for every user, and a matriciel request of a user with at least
\* COLD_START_THRESHOLD rows gets status success, the label
\* matriciel_na_fallback and the fallback track.
C18_CollaborativeUnavailable ==
    (pc # "server_import"
        /\ (~train_triplets_exists \/ load_model(files, "model-4000000-40").kind # "model"))
      => /\ ~COLLABORATIVE_AVAILABLE
         /\ pc = "server_collab_returned" => collab_return = <<>>
         /\ (pc = "server_responded"
                /\ response.http = 200
                /\ request.db_ok
                /\ request.algo_type = "matriciel"
                /\ Cardinality(HistoryOf(request.user_id)) >= COLD_START_THRESHOLD)
              => response = Response("Hotel California", "The Eagles",
                                     <<"matriciel_na", "_fallback">>, NoTrack)

\* The listened songs, the total listening_time of a song over all users, and
\* the listened songs whose row of the songs table has a title and an artist.
ListenedSongs == {row[2] : row \in DOMAIN listening_history}
TotalListening(id) == SumListening({r \in DOMAIN listening_history : r[2] = id})
TitledSongs ==
    {id \in ListenedSongs \cap DOMAIN songs_table :
        songs_table[id].title # "" /\ songs_table[id].artist # ""}

\* A /recommend/next request of a user with fewer than COLD_START_THRESHOLD
\* rows has been answered, the database being readable.
ColdAnswered ==
    /\ pc = "server_responded"
    /\ response.http = 200
    /\ request.db_ok
    /\ Cardinality(HistoryOf(request.user_id)) < COLD_START_THRESHOLD

SongTitleParts(r) == <<r.song_title.title, " - ", r.song_title.artist>>

\* C30: every /recommend/next request is answered with status success and a
\* song_title that is not empty; for a user with at least
\* COLD_START_THRESHOLD rows (the database being readable) the answer without
\* a track is the fixed fallback track under a label ending in _fallback, and
\* the label of an answer with a track does not end in _fallback.
C30_AlwaysSuccess ==
    pc = "server_responded" =>
        /\ response.status = "success"
        /\ \E k \in 1..3 : SongTitleParts(response)[k] # ""
        /\ (request.db_ok
               /\ Cardinality(HistoryOf(request.user_id)) >= COLD_START_THRESHOLD) =>
              /\ response.algorithm # <<>>
              /\ response.track = NoTrack =>
                    /\ response.song_title = [title |-> "Hotel California",
                                               artist |-> "The Eagles"]
                    /\ response.algorithm[Len(response.algorithm)] = "_fallback"
              /\ response.track # NoTrack =>
                    response.algorithm[Len(response.algorithm)] # "_fallback"

C18_Witness ==
    /\ pc = "server_responded"
    /\ files[<<"model-4000000-40", Suffixes[1]>>].kind = "npy"
    /\ files[<<"model-4000000-40", Suffixes[4]>>] = Missing
    /\ train_triplets_exists
    /\ request = [user_id |-> "warm", algo_type |-> "matriciel", db_ok |-> TRUE]
    /\ songs_table # <<>>
    /\ response.algorithm = <<"matriciel_na", "_fallback">>
    /\ response.status = "success"

\* ------------------------------------------------------------------------
\* api.get_recommendations on the profile of a trained user
\* ------------------------------------------------------------------------
\* A training file of two users with two songs each; the counts have mean 2
\* and standard deviation 1.
ProfileFile ==
    << [user_id |-> UserNames[1], song_id |-> SongNames[1], listening_count |-> 1, fields |-> 3],
       [user_id |-> UserNames[1], song_id |-> SongNames[2], listening_count |-> 3, fields |-> 3],
       [user_id |-> UserNames[2], song_id |-> SongNames[1], listening_count |-> 1, fields |-> 3],
       [user_id |-> UserNames[2], song_id |-> SongNames[3], listening_count |-> 3, fields |-> 3] >>

\* The (song_id, listening_count) pairs of a user in the training file.
ProfileOf(user_id) ==
    LET own == SelectSeq(train_triplets, LAMBDA line : line.user_id = user_id)
    IN [k \in 1..Len(own) |-> <<own[k].song_id, own[k].listening_count>>]

\* A latent row with first entry v, the others 0.
Lat(v) == [k \in 1..LatentDim |-> IF k = 1 THEN v ELSE 0]

ModelEntries == {-1, 0, 1}

\* train.py:60-63 on the normalized dataset: the prediction error e_ui of the
\* model m on triplet k of `raw` is 0. The normalized counts sum to 0, so
\* average_listening_count is 0 in training; the normalized count of triplet
\* k is z.D[k] * sqrt(z.n / z.V).
Fits(m, raw) ==
    LET z == normalize([k \in 1..Len(raw) |-> raw[k][3]])
    IN /\ ~z.nan
       /\ \A k \in 1..Len(raw) :
             LET hat == Dot(m.p[raw[k][1]], m.q[raw[k][2]]) + 0
                            + m.b_user[raw[k][1]] + m.b_song[raw[k][2]]
             IN /\ hat * hat * z.V = z.D[k] * z.D[k] * z.n
                /\ Sign(hat) = Sign(z.D[k])

\* The models over `users` and `songs` indices that training leaves with no error.
FittedModels(raw, users, songs) ==
    { m \in [q : [songs -> {Lat(v) : v \in ModelEntries}],
             p : [users -> {Lat(v) : v \in ModelEntries}],
             b_song : [songs -> ModelEntries],
             b_user : [users -> ModelEntries]] : Fits(m, raw) }

InitProfile ==
    /\ pc = "api_ready"
    /\ train_triplets = ProfileFile
    /\ train_triplets_exists = TRUE
    /\ max_size = DATASET_SIZE
    /\ lineno = Len(ProfileFile)
    /\ LET st == load(ProfileFile, DATASET_SIZE)
       IN /\ dataset_raw = st.dataset_raw
          /\ USER_MAPPING = st.USER_MAPPING
          /\ SONG_MAPPING = st.SONG_MAPPING
          /\ average_listening_count = MeanCount(st.dataset_raw)
          /\ songs_metadata \in {DOMAIN st.SONG_MAPPING, {SongNames[1], SongNames[3]}}
          /\ \E m \in FittedModels(st.dataset_raw,
                                   0..(Cardinality(DOMAIN st.USER_MAPPING) - 1),
                                   0..(Cardinality(DOMAIN st.SONG_MAPPING) - 1)) :
                /\ q = m.q
                /\ p = m.p
                /\ b_song = m.b_song
                /\ b_user = m.b_user
    /\ users_listenings = <<>>
    /\ most_similar_user_index = -1
    /\ reco = NotCalled
    /\ NoTrain
    /\ NoOther

\* One call of get_recommendations with the listenings of a trained user.
GetRecommendationsOfProfile ==
    /\ pc = "api_ready"
    /\ \E user_id \in DOMAIN USER_MAPPING :
        \E out \in get_recommendations(ProfileOf(user_id)) :
           /\ users_listenings' = ProfileOf(user_id)
           /\ most_similar_user_index' = out.user
           /\ reco' = out.reco
    /\ pc' = "api_returned"
    /\ UNCHANGED <<loadVars, modelVars, average_listening_count, songs_metadata, trainVars, otherVars>>

NextProfile == GetRecommendationsOfProfile \/ GetRecommendationsDone

SpecProfile == InitProfile /\ [][NextProfile]_vars

\* C19: a call whose listenings are those of a trained user keeps that user
\* as nearest neighbour and returns that user's best catalog songs.
C19_ProfileSelectsItsUser ==
    \A user_id \in DOMAIN USER_MAPPING :
        (pc = "api_returned" /\ users_listenings = ProfileOf(user_id))
          => /\ most_similar_user_index = USER_MAPPING[user_id]
             /\ LET preds == most_similar_user_predictions(USER_MAPPING[user_id])
                    valid == valid_indices(preds)
                IN \E order \in argsort([k \in 1..Len(valid) |-> preds[valid[k]]]) :
                      reco = Returned(LET top == top_songs(valid, order)
                                      IN [k \in 1..Len(top) |-> SONG_MAPPING_REVERT[top[k]]])

\* ------------------------------------------------------------------------
\* test_train.py then api.py: training, saving, loading, inference
\* ------------------------------------------------------------------------
MaxPipelineLines == 2

PipelineCounts == {1, 3}

PipelineLines ==
    [user_id : UserIds, song_id : SongIds, listening_count : PipelineCounts, fields : {3}]

\* The normalized count of triplet k, where it is an integer.
IntegralZ(z, k) ==
    {e \in -MaxPipelineLines..MaxPipelineLines :
        e * e * z.V = z.D[k] * z.D[k] * z.n /\ Sign(e) = Sign(z.D[k])}

\* normalize(dataset) on the triplets loaded: NaN counts when they are all
\* equal, otherwise the (integral) z-scores.
NormalizedTriplets(raw) ==
    LET z == normalize([k \in 1..Len(raw) |-> raw[k][3]])
    IN [k \in 1..Len(raw) |->
          <<raw[k][1], raw[k][2], IF z.nan THEN NaN ELSE CHOOSE e \in IntegralZ(z, k) : TRUE>>]

\* The training files of the model: the mean of the counts and the normalized
\* counts are integers; the counts of a file of several lines are not all
\* equal, so that the trained parameters are numbers.
PipelineFiles ==
    { file \in SeqsUpTo(PipelineLines, MaxPipelineLines) :
        LET z == normalize([k \in 1..Len(file) |-> file[k].listening_count])
        IN /\ file # <<>> => SumSeq([k \in 1..Len(file) |-> file[k].listening_count]) % Len(file) = 0
           /\ Len(file) > 1 => ~z.nan
           /\ z.nan \/ \A k \in 1..Len(file) : IntegralZ(z, k) # {} }

\* model.py:14: the l of init.
init_l == 100

\* test_train.py:9: the l passed to train and written into the model's name.
l == 40

\* A row of init: init_l entries.
InitRow == [k \in 1..init_l |-> 0]

\* model.init(n_songs, n_users): arrays of n_songs and n_users rows; of the
\* values random_sample can give, 0 is kept.
init_short(n_songs, n_users) ==
    [q |-> [i \in 0..(n_songs - 2) |-> InitRow],
     p |-> [u \in 0..(n_users - 1) |-> InitRow],
     b_song |-> [i \in 0..(n_songs - 2) |-> 0],
     b_user |-> [u \in 0..(n_users - 1) |-> 0]]

init(n_songs, n_users) ==
    [q |-> [i \in 0..(n_songs - 1) |-> InitRow],
     p |-> [u \in 0..(n_users - 1) |-> InitRow],
     b_song |-> [i \in 0..(n_songs - 1) |-> 0],
     b_user |-> [u \in 0..(n_users - 1) |-> 0]]

\* int(len(dataset) * 0.66)
training_set_size(n) == (n * 66) \div 100

InitPipeline ==
    /\ pc = "main_load"
    /\ train_triplets \in PipelineFiles
    /\ train_triplets_exists = TRUE
    /\ max_size = DATASET_SIZE
    /\ lineno = 0
    /\ dataset_raw = <<>>
    /\ USER_MAPPING = EmptyDict
    /\ SONG_MAPPING = EmptyDict
    /\ NoModel
    /\ NoApi
    /\ NoTrain
    /\ NoOther

\* test_train.py:12: dataset, USER_MAPPING, SONG_MAPPING = load_dataset(DATASET_SIZE)
MainLoad ==
    /\ pc = "main_load"
    /\ LET st == load(train_triplets, max_size)
       IN /\ dataset_raw' = st.dataset_raw
          /\ USER_MAPPING' = st.USER_MAPPING
          /\ SONG_MAPPING' = st.SONG_MAPPING
    /\ lineno' = Len(train_triplets)
    /\ pc' = "main_init"
    /\ UNCHANGED <<train_triplets, train_triplets_exists, max_size, modelVars, apiVars,
                   trainVars, otherVars>>

\* test_train.py:13-33 and train.py:28-39: the dataset is normalized, shuffled
\* and split, the model is allocated and train starts on it.
MainInit ==
    /\ pc = "main_init"
    /\ \E dataset_shuffled \in Shuffles(NormalizedTriplets(dataset_raw)) :
          LET k == training_set_size(Len(dataset_raw))
          IN /\ train_set' = SubSeq(dataset_shuffled, 1, k)
             /\ validation_set' = SubSeq(dataset_shuffled, k + 1, Len(dataset_shuffled))
             /\ average_listening_count' = FMean(SubSeq(dataset_shuffled, 1, k))
    /\ LET m == init(Cardinality(DOMAIN SONG_MAPPING), Cardinality(DOMAIN USER_MAPPING))
       IN /\ q' = m.q
          /\ p' = m.p
          /\ b_song' = m.b_song
          /\ b_user' = m.b_user
          /\ initial_model' = m
          /\ caller_model' = m
    /\ lbd' = 0
    /\ gamma' \in {0, 1}
    /\ n_epochs' = 1
    /\ epoch' = 0
    /\ pos' = 0
    /\ loss_sum' = 0
    /\ accuracy_sum' = 0
    /\ learning_stats' = [losses_train |-> NaNList(1),
                          losses_validation |-> NaNList(1),
                          accuracy_train |-> [j \in 1..1 |-> Sqrt(NaN, 1)],
                          accuracy_validation |-> [j \in 1..1 |-> Sqrt(NaN, 1)]]
    /\ train_return' = NotReturned
    /\ pc' = "train_epoch"
    /\ UNCHANGED <<loadVars, songs_metadata, users_listenings, most_similar_user_index,
                   reco, otherVars>>

\* test_train.py:37: save(f"model-{DATASET_SIZE}-{l}", model)
MainSave ==
    /\ pc = "train_done"
    /\ files' = save(files, "model-4000000-40", train_return.model)
    /\ pc' = "api_import"
    /\ UNCHANGED <<loadVars, modelVars, apiVars, trainVars, datasetVars, save_prefix,
                   load_return, calls, backendVars, serverVars>>

\* api.py:10-30: the module rebuilds the mappings from the training file and
\* loads the saved model.
ApiImport ==
    /\ pc = "api_import"
    /\ LET st == load(train_triplets, max_size)
           loaded == load_model(files, "model-4000000-40")
       IN /\ dataset_raw' = st.dataset_raw
          /\ USER_MAPPING' = st.USER_MAPPING
          /\ SONG_MAPPING' = st.SONG_MAPPING
          /\ average_listening_count' = MeanCount(st.dataset_raw)
          /\ songs_metadata' \in {DOMAIN st.SONG_MAPPING, {UnknownSong}}
          /\ IF loaded.kind = "model"
             THEN /\ q' = loaded.model[1]
                  /\ p' = loaded.model[2]
                  /\ b_song' = loaded.model[3]
                  /\ b_user' = loaded.model[4]
                  /\ pc' = "api_ready"
             ELSE /\ UNCHANGED modelVars
                  /\ pc' = "api_import_error"
    /\ UNCHANGED <<train_triplets, train_triplets_exists, max_size, lineno, users_listenings,
                   most_similar_user_index, reco, trainVars, otherVars>>

NextPipeline ==
    \/ MainLoad
    \/ MainInit
    \/ TrainEpoch
    \/ TrainStep
    \/ TrainEpochEnd
    \/ TrainReturn
    \/ MainSave
    \/ ApiImport
    \/ GetRecommendationsOfProfile
    \/ GetRecommendationsDone

SpecPipeline == InitPipeline /\ [][NextPipeline]_vars

\* index < the first dimension of array
InBounds(index, array) == index \in 0..(Cardinality(DOMAIN array) - 1) /\ index \in DOMAIN array

\* The song indices get_recommendations selects rows of q and b_song with.
QuerySongIndexes == SeqToSet(user_songs_selected(user_song_indexes(users_listenings).items))

\* C20: every user index used on p and b_user and every song index used on q
\* and b_song, by train on the model init(len(SONG_MAPPING), len(USER_MAPPING))
\* gives and by get_recommendations on the loaded model, is below the first
\* dimension of the array.
C20_IndexesInBounds ==
    /\ pc \in {"train_epoch", "train_step"} =>
          \A t \in SeqToSet(train_set) \cup SeqToSet(validation_set) :
              /\ InBounds(t[1], p)
              /\ InBounds(t[1], b_user)
              /\ InBounds(t[2], q)
              /\ InBounds(t[2], b_song)
    /\ pc \in {"api_ready", "api_returned"} =>
          \A song_id \in DOMAIN SONG_MAPPING :
              InBounds(SONG_MAPPING[song_id], q) /\ InBounds(SONG_MAPPING[song_id], b_song)
    /\ (pc = "api_returned" /\ most_similar_user_index # -1) =>
          /\ InBounds(most_similar_user_index, p)
          /\ InBounds(most_similar_user_index, b_user)
          /\ \A idx \in QuerySongIndexes : InBounds(idx, q) /\ InBounds(idx, b_song)
          /\ \A idx \in SeqToSet(valid_indices(most_similar_user_predictions(most_similar_user_index))) :
                InBounds(idx, q) /\ InBounds(idx, b_song)

\* C26: the model the training script saves as model-<DATASET_SIZE>-<l> and
\* the inference module loads under that name has l columns in q and p, the
\* latent dimensionality of init being the l of the script.
C26_LatentDimOfName ==
    pc \in {"api_ready", "api_returned"} =>
        /\ \A i \in DOMAIN q : Len(q[i]) = l
        /\ \A u \in DOMAIN p : Len(p[u]) = l

C20_Witness ==
    /\ pc = "api_returned"
    /\ epoch = 1
    /\ Len(train_set) = 1
    /\ most_similar_user_index = 0
    /\ QuerySongIndexes = {0, 1}
    /\ Cardinality(DOMAIN q) = 2
    /\ reco.kind = "list"

\* ------------------------------------------------------------------------
\* mix_recommender.get_mix_recommendation
\* ------------------------------------------------------------------------
MaxRecs == 3

\* add_votes: max_points, and the length of the slice recommendations[:5].
MaxPoints == 5
TopRecs == 5

MixSongs == {"a1", "a2"}

\* A recommendation without a song_id.
NoIdRec == [song_id |-> "", title |-> "t", artist |-> "artist"]

MixRecs == {SongRow(id) : id \in MixSongs} \cup {NoIdRec}

\* Lists of more than TopRecs recommendations.
LongRecs ==
    { <<NoIdRec, NoIdRec, NoIdRec, NoIdRec, NoIdRec, SongRow("a1")>>,
      <<SongRow("a2"), NoIdRec, NoIdRec, NoIdRec, SongRow("a2"), SongRow("a1"), SongRow("a1")>> }

RecLists == SeqsUpTo(MixRecs, MaxRecs) \cup LongRecs

\* What a recommender gives get_mix_recommendation: it raises, returns None,
\* or returns a list.
RecOutcomes ==
    { [kind |-> "raise", recs |-> <<>>], [kind |-> "None", recs |-> <<>>] }
        \cup { [kind |-> "list", recs |-> recs] : recs \in RecLists }

\* points = max_points - i, for the entry at position k = i + 1.
Points_flat(k) == 1

Points(k) == MaxPoints - (k - 1)

\* add_votes(recommendations): the candidates dict after the call. The dict
\* maps a song_id to its points and to the first recommendation seen for it.
RECURSIVE AddVotesFrom(_, _, _)
AddVotesFrom(candidates, top_recs, k) ==
    IF k > Len(top_recs)
    THEN candidates
    ELSE LET rec == top_recs[k]
             song_id == rec.song_id
         IN IF song_id = ""
            THEN AddVotesFrom(candidates, top_recs, k + 1)
            ELSE LET held == IF song_id \in DOMAIN candidates
                             THEN candidates[song_id]
                             ELSE [points |-> 0, song_details |-> rec]
                     voted == [held EXCEPT !.points = @ + Points(k)]
                 IN AddVotesFrom([id \in DOMAIN candidates \cup {song_id} |->
                                     IF id = song_id THEN voted ELSE candidates[id]],
                                 top_recs, k + 1)

add_votes(candidates, recommendations) ==
    IF recommendations = <<>>
    THEN candidates
    ELSE AddVotesFrom(candidates,
                      SubSeq(recommendations, 1, Min(TopRecs, Len(recommendations))), 1)

\* The list a recommender leaves in content_recs or collab_recs: [] when the
\* call raised, the value returned otherwise (None votes like []).
RecsOf(out) == IF out.kind = "list" THEN out.recs ELSE <<>>

\* get_mix_recommendation: the pairs (rec, reason) it can return.
get_mix_recommendation(content_recommender_instance, content_out, collab_out) ==
    LET content_recs == IF content_recommender_instance THEN RecsOf(content_out) ELSE <<>>
        collab_recs == RecsOf(collab_out)
        candidates == add_votes(add_votes([id \in {} |-> 0], content_recs), collab_recs)
    IN IF DOMAIN candidates = {}
       THEN {[rec |-> NoTrack, reason |-> "mix_no_candidates"]}
       ELSE LET max_score == CHOOSE m \in {candidates[id].points : id \in DOMAIN candidates} :
                                \A id \in DOMAIN candidates : candidates[id].points <= m
                winners == {candidates[id].song_details :
                               id \in {c \in DOMAIN candidates : candidates[c].points = max_score}}
            IN {[rec |-> w, reason |-> "mix_hybrid"] : w \in winners}

InitMix ==
    /\ pc = "mix_ready"
    /\ train_triplets = <<>>
    /\ train_triplets_exists = FALSE
    /\ max_size = 0
    /\ lineno = 0
    /\ dataset_raw = <<>>
    /\ USER_MAPPING = EmptyDict
    /\ SONG_MAPPING = EmptyDict
    /\ NoModel
    /\ NoApi
    /\ NoTrain
    /\ NoDataset
    /\ NoFiles
    /\ NoCalls
    /\ NoServer
    /\ invoked = {}
    /\ mix_args \in [content_recommender_instance : BOOLEAN, content : RecOutcomes,
                     collab : RecOutcomes]
    /\ mix_return = <<>>
    /\ score_args = <<>>
    /\ score_return = <<>>
    /\ feedback_request = <<>>
    /\ feedback_response = <<>>
    /\ feedback_log = <<>>
    /\ initial_history = <<>>

\* One call of get_mix_recommendation.
GetMixRecommendation ==
    /\ pc = "mix_ready"
    /\ mix_return' \in get_mix_recommendation(mix_args.content_recommender_instance,
                                               mix_args.content, mix_args.collab)
    /\ pc' = "mix_returned"
    /\ UNCHANGED <<loadVars, modelVars, apiVars, trainVars, datasetVars, persistVars, calls,
                   serverVars, invoked, mix_args, score_args, score_return,
                   feedbackVars>>

\* The next call, with what the recommenders give then.
GetMixRecommendationDone ==
    /\ pc = "mix_returned"
    /\ pc' = "mix_ready"
    /\ mix_return' = <<>>
    /\ mix_args' \in [content_recommender_instance : {mix_args.content_recommender_instance},
                      content : {mix_args.content},
                      collab : {mix_args.collab, [kind |-> "raise", recs |-> <<>>]}]
    /\ UNCHANGED <<loadVars, modelVars, apiVars, trainVars, datasetVars, persistVars, calls,
                   serverVars, invoked, score_args, score_return,
                   feedbackVars>>

NextMix == GetMixRecommendation \/ GetMixRecommendationDone

SpecMix == InitMix /\ [][NextMix]_vars

\* The lists that vote in the call of mix_args.
VotingLists ==
    << IF mix_args.content_recommender_instance /\ mix_args.content.kind = "list"
       THEN mix_args.content.recs ELSE <<>>,
       IF mix_args.collab.kind = "list" THEN mix_args.collab.recs ELSE <<>> >>

\* The points a list gives to a song: 5, 4, 3, 2, 1 at positions 1 to 5.
ListPoints(recs, song_id) ==
    SumSeq([k \in 1..Min(5, Len(recs)) |-> IF recs[k].song_id = song_id THEN 6 - k ELSE 0])

TotalPoints(song_id) == ListPoints(VotingLists[1], song_id) + ListPoints(VotingLists[2], song_id)

MixCandidates == {id \in MixSongs : TotalPoints(id) > 0}

\* C21: with the points 5, 4, 3, 2, 1 for the positions 1 to 5 of each list,
\* get_mix_recommendation returns with the label mix_hybrid a song of maximal
\* total when some song received points, and (None, mix_no_candidates)
\* exactly when none did.
C21_MixRankVoting ==
    pc = "mix_returned" =>
        /\ (MixCandidates = {}) <=> (mix_return = [rec |-> NoTrack, reason |-> "mix_no_candidates"])
        /\ MixCandidates # {} =>
              /\ mix_return.reason = "mix_hybrid"
              /\ mix_return.rec.song_id \in MixCandidates
              /\ \A id \in MixCandidates : TotalPoints(id) <= TotalPoints(mix_return.rec.song_id)

C21_Witness ==
    /\ pc = "mix_returned"
    /\ mix_return.reason = "mix_hybrid"
    /\ mix_return.rec.song_id = "a2"
    /\ TotalPoints("a2") = 9
    /\ TotalPoints("a1") = 8
    /\ ListPoints(VotingLists[1], "a1") = 5

\* ------------------------------------------------------------------------
\* server.compute_score
\* ------------------------------------------------------------------------
MaxListened == 12

DEFAULT_SONG_DURATION == 210
MAX_SCORE == 10

\* listened_seconds: float(listeningTime) of a request; NaN is float("nan").
ListenedSeconds == (-MaxListened..MaxListened) \cup {105, 210, 500, NaN}

\* total_duration: None, or the duration column of the song's row.
Durations ==
    {[is_None |-> TRUE, value |-> 0]}
        \cup {[is_None |-> FALSE, value |-> v] : v \in {-5, 0, 7, 10, DEFAULT_SONG_DURATION}}

\* math.ceil(num / den) for den > 0.
Ceil(num, den) == 0 - ((0 - num) \div den)

\* compute_score(listened_seconds, total_duration): the int returned, or the
\* exception raised. min(nan, duration) is nan and math.ceil(nan) raises
\* ValueError.
compute_score(listened_seconds, total_duration) ==
    LET duration == IF ~total_duration.is_None /\ total_duration.value # 0
                       /\ total_duration.value > 0
                    THEN total_duration.value
                    ELSE DEFAULT_SONG_DURATION
        actual_listened == Min(listened_seconds, duration)
    IN IF listened_seconds = NaN
       THEN [kind |-> "ValueError", value |-> 0]
       ELSE [kind |-> "int", value |-> Ceil(actual_listened * MAX_SCORE, duration)]

InitScore ==
    /\ pc = "score_ready"
    /\ train_triplets = <<>>
    /\ train_triplets_exists = FALSE
    /\ max_size = 0
    /\ lineno = 0
    /\ dataset_raw = <<>>
    /\ USER_MAPPING = EmptyDict
    /\ SONG_MAPPING = EmptyDict
    /\ NoModel
    /\ NoApi
    /\ NoTrain
    /\ NoDataset
    /\ NoFiles
    /\ NoCalls
    /\ NoServer
    /\ invoked = {}
    /\ mix_args = <<>>
    /\ mix_return = <<>>
    /\ score_args \in [listened_seconds : ListenedSeconds, total_duration : Durations]
    /\ score_return = <<>>
    /\ feedback_request = <<>>
    /\ feedback_response = <<>>
    /\ feedback_log = <<>>
    /\ initial_history = <<>>

\* One call of compute_score.
ComputeScore ==
    /\ pc = "score_ready"
    /\ score_return' = compute_score(score_args.listened_seconds, score_args.total_duration)
    /\ pc' = "score_returned"
    /\ UNCHANGED <<loadVars, modelVars, apiVars, trainVars, datasetVars, persistVars, calls,
                   serverVars, invoked, mix_args, mix_return, score_args,
                   feedbackVars>>

\* The caller takes the score; the next call has its own listened_seconds.
ComputeScoreDone ==
    /\ pc = "score_returned"
    /\ pc' = "score_ready"
    /\ score_return' = <<>>
    /\ \E listened_seconds \in ListenedSeconds :
          score_args' = [score_args EXCEPT !.listened_seconds = listened_seconds]
    /\ UNCHANGED <<loadVars, modelVars, apiVars, trainVars, datasetVars, persistVars, calls,
                   serverVars, invoked, mix_args, mix_return,
                   feedbackVars>>

NextScore == ComputeScore \/ ComputeScoreDone

SpecScore == InitScore /\ [][NextScore]_vars

\* C22: compute_score returns an integer from 0 to 10 for every
\* listened_seconds and every total_duration.
C22_ScoreBetween0And10 ==
    pc = "score_returned" =>
        /\ score_return.kind = "int"
        /\ score_return.value \in 0..10

\* ------------------------------------------------------------------------
\* Claims on the query vector of get_recommendations
\* ------------------------------------------------------------------------
\* The items dict of the last call and the indexes of its known songs.
LastItems == user_song_indexes(users_listenings).items

KnownIndexes == {SONG_MAPPING[id] : id \in QuerySongIds(users_listenings) \cap DOMAIN SONG_MAPPING}

\* C24: the components of the query vector and the columns of the per-user
\* prediction matrix stand for the same songs, the known songs of the query by
\* ascending index, one component per distinct known song, whatever the order
\* of the query.
C24_QueryAligned ==
    (pc = "api_returned" /\ KnownIndexes # {}) =>
        LET vector_songs == sorted_items(LastItems)
            column_songs == user_songs_selected(LastItems)
            uv == user_vector(LastItems)
            ps == p_user_songs(LastItems)
        IN /\ vector_songs = column_songs
           /\ column_songs = SortedSeq(KnownIndexes)
           /\ uv.n = Cardinality(KnownIndexes)
           /\ \A k \in 1..uv.n :
                 /\ uv.D[k] = uv.n * LastItems[column_songs[k]]
                                 - SumSeq([j \in 1..uv.n |-> LastItems[column_songs[j]]])
                 /\ \A u \in DOMAIN p :
                       /\ Len(ps[u]) = uv.n
                       /\ ps[u][k] = Predicted(u, column_songs[k])
           /\ \A other \in Shuffles(users_listenings) :
                 /\ sorted_items(user_song_indexes(other).items) = vector_songs
                 /\ user_songs_selected(user_song_indexes(other).items) = column_songs

C24_Witness ==
    /\ pc = "api_returned"
    /\ users_listenings = << <<SongNames[NSongs - 1], 3>>, <<SongNames[NSongs], 1>> >>
    /\ sorted_items(LastItems) = <<0, 1>>
    /\ user_vector(LastItems).D = <<-2, 2>>
    /\ reco.kind = "list"

\* C25: for every query with a known song the query vector is well defined
\* (its standard deviation is not zero), the distances are numbers and
\* the user kept is a user at the smallest distance.
C25_QueryVectorDefined ==
    (pc = "api_returned" /\ KnownIndexes # {}) =>
        /\ ~user_vector(LastItems).nan
        /\ \A u \in DOMAIN p : ~LastDist[u].nan
        /\ C7_NoUserNearer

\* ------------------------------------------------------------------------
\* POST /feedback/update (server.py:421-530)
\* ------------------------------------------------------------------------
MaxFeedback == 2

\* The duration column of the songs table: NULL, or a number of seconds.
duration_column(id) ==
    IF id = "a1" THEN [is_None |-> FALSE, value |-> 10]
    ELSE IF id = "a2" THEN [is_None |-> TRUE, value |-> 0]
    ELSE [is_None |-> FALSE, value |-> DEFAULT_SONG_DURATION]

\* listeningTime as received: a text float() parses (NaN for "nan"; 0 when the
\* parameter is absent), or a text it does not parse.
ListeningTimes ==
    {[parses |-> TRUE, value |-> v] : v \in {-50, 0, 5, 500, NaN}}
        \cup {[parses |-> FALSE, value |-> 0]}

\* songId or musicId as received ("" : absent); "zz" is in no songs table.
RawIds == {"", "a1", "zz"}

\* songTitle as received, as the strings it is the concatenation of (<<>>:
\* absent).
SongTitles ==
    {<<>>, <<"a2">>, <<"a1", " - ", "artist">>, <<"live ", "a2", " (remix)">>, <<"zz">>}

resolve_song_id_unverified(raw_id_input, song_title_input) ==
    {IF raw_id_input # "" THEN raw_id_input
     ELSE IF song_title_input # <<>> THEN song_title_input[1] ELSE ""}

\* Lines 458-484: the values final_song_id can have after the lookups ("":
\* None). A lookup that matches several rows takes any of them (fetchone).
resolve_song_id(raw_id_input, song_title_input) ==
    IF raw_id_input # "" /\ raw_id_input \in DOMAIN songs_table
    THEN {raw_id_input}
    ELSE LET search_term == IF song_title_input # <<>> THEN song_title_input
                            ELSE IF raw_id_input # "" THEN <<raw_id_input>> ELSE <<>>
             exact == {id \in DOMAIN songs_table :
                          \/ search_term = <<songs_table[id].title>>
                          \/ search_term = <<songs_table[id].title, " - ",
                                             songs_table[id].artist>>}
             like == {id \in DOMAIN songs_table :
                         \/ songs_table[id].title = ""
                         \/ \E k \in 1..Len(search_term) :
                               search_term[k] = songs_table[id].title}
         IN IF search_term = <<>> THEN {""}
            ELSE IF exact # {} THEN exact
            ELSE IF like # {} THEN like
            ELSE {""}

Upsert_replace(history, row, interest_score) ==
    IF row \in DOMAIN history
    THEN [history EXCEPT ![row] = interest_score]
    ELSE (row :> interest_score) @@ history

\* Lines 509-516: INSERT ... ON CONFLICT(user_id, song_id) DO UPDATE SET
\* listening_time = listening_history.listening_time + excluded.listening_time
Upsert(history, row, interest_score) ==
    IF row \in DOMAIN history
    THEN [history EXCEPT ![row] = @ + interest_score]
    ELSE (row :> interest_score) @@ history

FeedbackResponse(http, status, score_computed, resolved_song_id) ==
    [http |-> http, status |-> status, score_computed |-> score_computed,
     resolved_song_id |-> resolved_song_id]

\* update_user_feedback: the outcomes of a request, each the response and the
\* listening_history the request leaves. float(listeningTime) is outside the
\* try (an error leaves the framework's 500); inside it every exception is
\* answered with 500: the database that cannot be read, the ValueError of
\* compute_score, the NOT NULL constraint on user_id.
update_user_feedback(user_id, raw_id_input, song_title_input, listeningTime, db_ok) ==
    IF ~listeningTime.parses \/ ~db_ok
    THEN {[response |-> FeedbackResponse(500, "", 0, ""), history |-> listening_history]}
    ELSE { IF final_song_id = ""
           THEN [response |-> FeedbackResponse(400, "error", 0, ""),
                 history |-> listening_history]
           ELSE LET row == duration_column(final_song_id)
                    total_duration == IF ~row.is_None /\ row.value # 0
                                      THEN row
                                      ELSE [is_None |-> FALSE, value |-> DEFAULT_SONG_DURATION]
                    interest_score == compute_score(listeningTime.value, total_duration)
                IN IF interest_score.kind # "int" \/ user_id = ""
                   THEN [response |-> FeedbackResponse(500, "", 0, ""),
                         history |-> listening_history]
                   ELSE [response |-> FeedbackResponse(200, "success", interest_score.value,
                                                       final_song_id),
                         history |-> Upsert(listening_history, <<user_id, final_song_id>>,
                                            interest_score.value)] :
           final_song_id \in resolve_song_id(raw_id_input, song_title_input) }

\* The songs tables the requests find: empty, every song, two songs with a
\* title and one without.
FeedbackTables ==
    { [id \in {} |-> NoTrack],
      [id \in ServerSongs |-> SongRow(id)],
      [id \in {"a1", "a2", "a3"} |-> IF id = "a3" THEN UntitledRow(id) ELSE SongRow(id)] }

\* The database the requests find: a songs table and one of the histories
\* with at most two rows per song of ServerSongs.
InitFeedback ==
    /\ pc = "feedback_ready"
    /\ train_triplets = <<>>
    /\ train_triplets_exists = FALSE
    /\ max_size = 0
    /\ lineno = 0
    /\ dataset_raw = <<>>
    /\ USER_MAPPING = EmptyDict
    /\ SONG_MAPPING = EmptyDict
    /\ NoModel
    /\ NoApi
    /\ NoTrain
    /\ NoDataset
    /\ NoFiles
    /\ NoCalls
    /\ COLLABORATIVE_AVAILABLE = FALSE
    /\ CONTENT_RECOMMENDER_AVAILABLE = FALSE
    /\ MIX_RECOMMENDER_AVAILABLE = FALSE
    /\ content_recommender = FALSE
    /\ songs_table \in FeedbackTables
    /\ listening_history \in {h \in Histories : Cardinality(DOMAIN h) <= 2 * Cardinality(ServerSongs)}
    /\ collab_return = <<>>
    /\ request = NoRequest
    /\ response = NoResponse
    /\ invoked = {}
    /\ mix_args = <<>>
    /\ mix_return = <<>>
    /\ score_args = <<>>
    /\ score_return = <<>>
    /\ feedback_request = <<>>
    /\ feedback_response = <<>>
    /\ feedback_log = <<>>
    /\ initial_history = listening_history

\* One request, from the parameters to the response.
UpdateUserFeedback ==
    /\ pc = "feedback_ready"
    /\ Len(feedback_log) < MaxFeedback
    /\ \E userId \in ServerUsers \cup {""}, raw_id_input \in RawIds,
          song_title_input \in SongTitles, listeningTime \in ListeningTimes,
          db_ok \in BOOLEAN :
          /\ feedback_request' = [user_id |-> userId, raw_id_input |-> raw_id_input,
                                  song_title_input |-> song_title_input,
                                  listeningTime |-> listeningTime, db_ok |-> db_ok,
                                  history |-> listening_history]
          /\ \E outcome \in update_user_feedback(userId, raw_id_input, song_title_input,
                                                 listeningTime, db_ok) :
                /\ feedback_response' = outcome.response
                /\ listening_history' = outcome.history
                /\ feedback_log' =
                      IF outcome.response.http = 200
                      THEN Append(feedback_log,
                                  [user_id |-> userId,
                                   song_id |-> outcome.response.resolved_song_id,
                                   score |-> outcome.response.score_computed])
                      ELSE feedback_log
    /\ pc' = "feedback_responded"
    /\ UNCHANGED <<loadVars, modelVars, apiVars, trainVars, datasetVars, persistVars, calls,
                   COLLABORATIVE_AVAILABLE, CONTENT_RECOMMENDER_AVAILABLE,
                   MIX_RECOMMENDER_AVAILABLE, content_recommender, songs_table, collab_return,
                   request, response, invoked, mixVars, initial_history>>

\* The client has the response.
FeedbackDone ==
    /\ pc = "feedback_responded"
    /\ pc' = "feedback_ready"
    /\ feedback_request' = <<>>
    /\ feedback_response' = <<>>
    /\ UNCHANGED <<loadVars, modelVars, apiVars, trainVars, datasetVars, persistVars, calls,
                   serverVars, invoked, mixVars, feedback_log, initial_history>>

NextFeedback == UpdateUserFeedback \/ FeedbackDone

SpecFeedback == InitFeedback /\ [][NextFeedback]_vars

\* The rows the successful requests wrote to, and the sum of the scores the
\* successful requests computed for a row.
LoggedRows == {<<feedback_log[k].user_id, feedback_log[k].song_id>> : k \in 1..Len(feedback_log)}

LoggedScore(row) ==
    SumSeq([k \in 1..Len(feedback_log) |->
               IF <<feedback_log[k].user_id, feedback_log[k].song_id>> = row
               THEN feedback_log[k].score ELSE 0])

\* C27: after any sequence of successful /feedback/update requests,
\* listening_history has one row for each pair (user_id, song_id) it had or a
\* request resolved to, and the listening_time of a row is the value stored
\* before the requests (0 for a new row) plus the sum of the scores the
\* requests computed for the pair; so a request changes no other row.
C27_FeedbackAccumulates ==
    /\ DOMAIN listening_history = DOMAIN initial_history \cup LoggedRows
    /\ \A row \in DOMAIN listening_history :
          listening_history[row] =
              (IF row \in DOMAIN initial_history THEN initial_history[row] ELSE 0)
                  + LoggedScore(row)

C27_Witness ==
    /\ pc = "feedback_responded"
    /\ Len(feedback_log) = 2
    /\ feedback_log[1].score = 10
    /\ feedback_log[2].score = 5
    /\ LoggedRows = {<<"warm", "a1">>}
    /\ initial_history[<<"warm", "a1">>] = 1
    /\ listening_history[<<"warm", "a1">>] = 16

\* The request names no song, or no row of the songs table matches it: not
\* by song_id, not by title or "title - artist", not by a title contained in
\* the text.
NoSongMatches(req) ==
    LET search_term == IF req.song_title_input # <<>> THEN req.song_title_input
                       ELSE <<req.raw_id_input>>
    IN \/ req.raw_id_input = "" /\ req.song_title_input = <<>>
       \/ \A id \in DOMAIN songs_table :
          /\ id # req.raw_id_input
          /\ search_term # <<songs_table[id].title>>
          /\ search_term # <<songs_table[id].title, " - ", songs_table[id].artist>>
          /\ songs_table[id].title # ""
          /\ \A k \in 1..Len(search_term) : search_term[k] # songs_table[id].title

====
